---- MODULE Spec2Model ----
(***************************************************************************)
(* Model of the cinemesis vote ledger (internal/data/votes.go) running on  *)
(* PostgreSQL at the default READ COMMITTED isolation level, and of the    *)
(* filtered-query builders (internal/data/filters.go, internal/filters).   *)
(***************************************************************************)
EXTENDS Integers, Sequences, FiniteSets, TLC

\* ------------------------------------------------------------------------
\* Bounds
\* ------------------------------------------------------------------------
\* requests started in one behaviour
MaxCalls == 3
\* fragments a builder driven call by call may hold
MaxConditions == 2

\* ids of the rows of reviews and of users, and the requests served at once
Reviews == {1, 2}
Users == {1, 2}
Procs == {1, 2}

\* ------------------------------------------------------------------------
\* votes.go: VoteType and its constants
\* ------------------------------------------------------------------------
NoneVote == 0
Upvote == 1
Downvote == -1

\* values a client can put in the request body of POST /v1/reviews/{id}/vote
VoteInputs == -2..2

VARIABLES
    review_votes,   \* committed rows of table review_votes
    reviews,        \* committed counters of table reviews: id -> [upvotes, downvotes]
    pc,             \* position of each request inside VoteReview
    call,           \* arguments of the request in flight: reviewID, userID, voteType
    currentVote,    \* the local currentVote of VoteReview
    voteWrite,      \* uncommitted write of the transaction on review_votes
    countWrite,     \* uncommitted write of the transaction on reviews
    result,         \* how the last VoteReview of the process ended, and at which statement
    nCalls,         \* number of requests started so far
    pre,            \* history: committed vote and counters seen when the request began
    lastTwo,        \* history: the last two committed requests, oldest first
    qb,             \* the query builder under construction
    built,          \* the (query, args) pair returned by Build
    movies,         \* committed rows of table movies
    movies_genres,  \* rows of table movies_genres
    genres,         \* rows of table genres
    list,           \* the request GET /v1/movies under way or answered
    pages,          \* the pages a client fetched one after the other
    upd,            \* each request inside updateMovieHandler: its Movie and its transaction
    rv              \* the review filters of a request as parsed and validated

voteVars == <<review_votes, reviews, pc, call, currentVote, voteWrite, countWrite,
              result, nCalls, pre, lastTwo>>
qbVars == <<qb, built>>
catVars == <<movies, movies_genres, genres, list, pages, upd, rv>>
vars == <<review_votes, reviews, pc, call, currentVote, voteWrite, countWrite,
          result, nCalls, pre, lastTwo, qb, built,
          movies, movies_genres, genres, list, pages, upd, rv>>

\* the primary key of a row of review_votes
KeyOf(row) == <<row.review_id, row.user_id>>

NoCall == [reviewID |-> 0, userID |-> 0, voteType |-> 0]
NoWrite == [op |-> "none", vote_type |-> 0]

\* a row of review_votes
Row(r, u, v) == [review_id |-> r, user_id |-> u, vote_type |-> v]
NoCount == [set |-> FALSE, upvotes |-> 0, downvotes |-> 0]
NoPre == [upvotes |-> 0, downvotes |-> 0, vote |-> 0]
NoResult == [status |-> "none", at |-> "idle"]

\* ------------------------------------------------------------------------
\* Tables
\* ------------------------------------------------------------------------
\* the rows of review_votes with the given key
RowsOf(r, u) == {row \in review_votes : KeyOf(row) = <<r, u>>}

\* SELECT vote_type ... Scan: sql.ErrNoRows is mapped to 0
getCurrentVoteValue(r, u) ==
    IF RowsOf(r, u) = {} THEN NoneVote
    ELSE (CHOOSE row \in RowsOf(r, u) : TRUE).vote_type

InFlight(p) == pc[p] # "idle"
Quiescent == \A p \in Procs : ~InFlight(p)


\* ------------------------------------------------------------------------
\* votes.go: pure helpers
\* ------------------------------------------------------------------------
\* variant: the new vote is not added to its counter
calculateDelta_NoIncrement(oldVote, newVote, targetVote) ==
    IF oldVote = targetVote THEN -1 ELSE 0

\* variant: the old vote is not taken off its counter
calculateDelta_NoDecrement(oldVote, newVote, targetVote) ==
    IF newVote = targetVote THEN 1 ELSE 0

calculateDelta(oldVote, newVote, targetVote) ==
    (IF oldVote = targetVote THEN -1 ELSE 0) + (IF newVote = targetVote THEN 1 ELSE 0)

\* variant: the counters are not floored at zero
Greatest0_NoFloor(x) == x

\* SQL GREATEST(0, x) of updateVoteCounts
Greatest0(x) == IF x < 0 THEN 0 ELSE x

\* variant: updateVote has no DELETE branch for a new vote of 0
VoteStatement_NoDeleteBranch(cur, new) ==
    IF cur = new THEN "delete"
    ELSE IF cur = NoneVote THEN "insert"
    ELSE "update"

\* the statement VoteReview issues on review_votes, chosen from currentVote
\* and voteType: deleteVote, or the DELETE / INSERT / UPDATE of updateVote
VoteStatement(cur, new) ==
    IF cur = new THEN "delete"
    ELSE IF new = 0 THEN "delete"
    ELSE IF cur = NoneVote THEN "insert"
    ELSE "update"

\* ------------------------------------------------------------------------
\* PostgreSQL row locks held by open transactions
\* ------------------------------------------------------------------------
\* transactions other than p holding an uncommitted write on p's vote row
VoteRowBlockers(p) ==
    {q \in Procs \ {p} : /\ voteWrite[q].op # "none"
                         /\ call[q].reviewID = call[p].reviewID
                         /\ call[q].userID = call[p].userID}

\* variant: the counter update locks the whole table reviews
ReviewRowBlockers_AnyReview(p) ==
    {q \in Procs \ {p} : countWrite[q].set}

\* variant: the counter update takes no row lock and works on the counters
\* it saw when it ran
ReviewRowBlockers_NoRowLock(p) == {}

\* transactions other than p holding the row lock of p's review
ReviewRowBlockers(p) ==
    {q \in Procs \ {p} : /\ countWrite[q].set
                         /\ call[q].reviewID = call[p].reviewID}

\* variant: review_votes has no primary key
UniqueViolation_NoKey(r, u) == FALSE

\* PRIMARY KEY (review_id, user_id): an INSERT meets a committed row with its key
UniqueViolation(r, u) == RowsOf(r, u) # {}

\* the table after a committed statement of kind w on key (r, u)
ApplyVoteWrite(rows, r, u, w) ==
    IF w.op = "insert" THEN rows \cup {Row(r, u, w.vote_type)}
    ELSE IF w.op = "update"
        THEN {IF row.review_id = r /\ row.user_id = u
                 THEN Row(r, u, w.vote_type) ELSE row : row \in rows}
    ELSE IF w.op = "delete"
        THEN {row \in rows : ~(row.review_id = r /\ row.user_id = u)}
    ELSE rows

ApplyCountWrite(tbl, r, w) ==
    IF w.set THEN [tbl EXCEPT ![r] = [upvotes |-> w.upvotes, downvotes |-> w.downvotes]]
    ELSE tbl

\* ------------------------------------------------------------------------
\* Query text and arguments
\* ------------------------------------------------------------------------
\* query text is a sequence of tokens: literal text, or the placeholder $n
Text(s) == [s |-> s, n |-> 0]
Placeholder(n) == [s |-> "$", n |-> n]

\* bound arguments
StrArg(s) == [kind |-> "string", str |-> s, int |-> 0, arr |-> <<>>]
IntArg(i) == [kind |-> "int", str |-> "", int |-> i, arr |-> <<>>]
ArrayArg(a) == [kind |-> "array", str |-> "", int |-> 0, arr |-> a]
\* a time.Time, counted in days; 0 is the zero time
TimeArg(t) == [kind |-> "time", str |-> "", int |-> t, arr |-> <<>>]

\* a sort key is a sequence of symbols: the marker "-" and a column name
DescMarker == "-"

\* strings.HasPrefix(s, "-") and strings.TrimPrefix(s, "-")
HasPrefix(s) == Len(s) > 0 /\ s[1] = DescMarker
TrimPrefix(s) == IF HasPrefix(s) THEN Tail(s) ELSE s

\* slices.Contains
Contains(elems, x) == \E i \in 1..Len(elems) : elems[i] = x

\* strings.Join(conditions, " AND ")
RECURSIVE Join(_)
Join(conds) ==
    IF Len(conds) = 0 THEN <<>>
    ELSE IF Len(conds) = 1 THEN conds[1]
    ELSE conds[1] \o <<Text(" AND ")>> \o Join(Tail(conds))

\* NewMovieFilters / listMoviesHandler: the safelist of the movie collection
MovieSortSafelist ==
    << <<"id">>, <<"title">>, <<"year">>, <<"runtime">>,
       <<"-", "id">>, <<"-", "title">>, <<"-", "year">>, <<"-", "runtime">> >>

\* a filter specification: MovieFilters with its PageFilters, and the genre ids
\* GetIDsByNames resolved
FilterSpec(title, genreIDs, minYear, maxYear, minRuntime, maxRuntime, page, pageSize, sort) ==
    [Title |-> title, GenreIDs |-> genreIDs, MinYear |-> minYear, MaxYear |-> maxYear,
     MinRuntime |-> minRuntime, MaxRuntime |-> maxRuntime,
     Page |-> page, PageSize |-> pageSize, Sort |-> sort,
     SortSafelist |-> MovieSortSafelist]

NoSpec == FilterSpec("", <<>>, 0, 0, 0, 0, 0, 0, <<>>)

\* NewQueryBuilder, in package data ("data") and in package filters ("filters")
NewQueryBuilder(package) ==
    [kind |-> package, conditions |-> <<>>, args |-> <<>>, argCount |-> 0]

NoBuilder == [kind |-> "none", conditions |-> <<>>, args |-> <<>>, argCount |-> 0]

AddTitleFilter(b, title) ==
    LET n == b.argCount + 1
    IN  [b EXCEPT !.argCount = n,
                  !.conditions = Append(@,
                      <<Text("(to_tsvector('simple', m.title) @@ plainto_tsquery('simple', "),
                        Placeholder(n), Text(") OR "), Placeholder(n), Text(" = '')")>>),
                  !.args = Append(@, StrArg(title))]

\* variant: the fragment asks for one of the genres, not for all of them
AddGenreFilter_AnyOverlap(b, genreIDs) ==
    IF Len(genreIDs) = 0 THEN b
    ELSE [b EXCEPT !.argCount = b.argCount + 2,
                   !.conditions = Append(@,
                       <<Text("m.id IN (SELECT movie_id FROM movies_genres WHERE genre_id = ANY("),
                         Placeholder(b.argCount + 1),
                         Text(") GROUP BY movie_id HAVING COUNT(DISTINCT genre_id) = "),
                         Placeholder(b.argCount + 2), Text(")")>>),
                   !.args = @ \o <<ArrayArg(genreIDs), IntArg(1)>>]

AddGenreFilter(b, genreIDs) ==
    IF Len(genreIDs) = 0 THEN b
    ELSE LET arrayArg == b.argCount + 1
             countArg == b.argCount + 2
         IN  [b EXCEPT !.argCount = countArg,
                       !.conditions = Append(@,
                           <<Text("m.id IN (SELECT movie_id FROM movies_genres WHERE genre_id = ANY("),
                             Placeholder(arrayArg),
                             Text(") GROUP BY movie_id HAVING COUNT(DISTINCT genre_id) = "),
                             Placeholder(countArg), Text(")")>>),
                       !.args = @ \o <<ArrayArg(genreIDs), IntArg(Len(genreIDs))>>]

\* variant: the bound is formatted into the fragment instead of being bound
AddBound_Inline(b, lhs, bound) ==
    IF bound > 0
    THEN [b EXCEPT !.conditions = Append(@, <<Text(lhs), [s |-> "literal", n |-> bound]>>)]
    ELSE b

\* variant: the placeholder is numbered before argCount is increased
AddBound_StalePlaceholder(b, lhs, bound) ==
    IF bound > 0
    THEN [b EXCEPT !.argCount = @ + 1,
                   !.conditions = Append(@, <<Text(lhs), Placeholder(b.argCount)>>),
                   !.args = Append(@, IntArg(bound))]
    ELSE b

\* one bound of a range filter: "<column> <op> $n" when the bound is positive
AddBound(b, lhs, bound) ==
    IF bound > 0
    THEN [b EXCEPT !.argCount = @ + 1,
                   !.conditions = Append(@, <<Text(lhs), Placeholder(b.argCount + 1)>>),
                   !.args = Append(@, IntArg(bound))]
    ELSE b

AddYearRangeFilter(b, minYear, maxYear) ==
    AddBound(AddBound(b, "m.year >= ", minYear), "m.year <= ", maxYear)

AddRuntimeRangeFilter(b, minRuntime, maxRuntime) ==
    AddBound(AddBound(b, "m.runtime >= ", minRuntime), "m.runtime <= ", maxRuntime)

WithTitle(b, title) == IF title # "" THEN AddTitleFilter(b, title) ELSE b
WithGenres(b, genreIDs) == IF Len(genreIDs) > 0 THEN AddGenreFilter(b, genreIDs) ELSE b
WithYearRange(b, min, max) == AddYearRangeFilter(b, min, max)
WithRuntimeRange(b, min, max) == AddRuntimeRangeFilter(b, min, max)

\* reviews.go: qb.argCount++, one fragment "<lhs>$n" and one argument
AddComparison(b, lhs, arg) ==
    [b EXCEPT !.argCount = @ + 1,
              !.conditions = Append(@, <<Text(lhs), Placeholder(b.argCount + 1)>>),
              !.args = Append(@, arg)]

AddRatingFilter(b, minRating, maxRating) ==
    LET b1 == IF minRating > 0
              THEN AddComparison(b, "r.rating >= ", IntArg(minRating)) ELSE b
    IN  IF maxRating > 0 /\ maxRating <= 10
        THEN AddComparison(b1, "r.rating <= ", IntArg(maxRating)) ELSE b1

AddUpvotesFilter(b, minUpvotes) ==
    IF minUpvotes > 0 THEN AddComparison(b, "r.upvotes >= ", IntArg(minUpvotes)) ELSE b

AddDateRangeFilter(b, dateFrom, dateTo) ==
    LET b1 == IF dateFrom # 0
              THEN AddComparison(b, "r.created_at >= ", TimeArg(dateFrom)) ELSE b
    IN  IF dateTo # 0
        THEN AddComparison(b1, "r.created_at <= ", TimeArg(dateTo)) ELSE b1

AddUserFilter(b, userID) ==
    IF userID > 0 THEN AddComparison(b, "r.user_id = ", IntArg(userID)) ELSE b

AddMovieFilter(b, movieID) ==
    IF movieID > 0 THEN AddComparison(b, "r.movie_id = ", IntArg(movieID)) ELSE b

\* ReviewQueryBuilder
WithMovieID(b, movieID) == AddMovieFilter(b, movieID)
WithRatingRange(b, min, max) == AddRatingFilter(b, min, max)
WithMinUpvotes(b, minUpvotes) == AddUpvotesFilter(b, minUpvotes)
WithDateRange(b, dateFrom, dateTo) == AddDateRangeFilter(b, dateFrom, dateTo)
WithUser(b, userID) == AddUserFilter(b, userID)

\* NewReviewFilters: the safelist of the review collection
ReviewSortSafelist ==
    << <<"id">>, <<"rating">>, <<"upvotes">>, <<"downvotes">>, <<"created_at">>,
       <<"-", "id">>, <<"-", "rating">>, <<"-", "upvotes">>, <<"-", "downvotes">>,
       <<"-", "created_at">> >>

\* ReviewFilters: its PageFilters and the fields the With* calls are fed from
ReviewFilterSpec(page, pageSize, sort) ==
    [FilterSpec("", <<>>, 0, 0, 0, 0, page, pageSize, sort)
        EXCEPT !.SortSafelist = ReviewSortSafelist]

\* PageFilters / Filters methods
sortSafe(f) == Contains(f.SortSafelist, f.Sort)
sortColumn(f) == TrimPrefix(f.Sort)
\* variant: the direction ignores the descending marker
sortDirection_Ascending(f) == "ASC"
sortDirection(f) == IF HasPrefix(f.Sort) THEN "DESC" ELSE "ASC"
limit(f) == f.PageSize
\* variant: the offset skips the requested page as well
offset_PageTimesSize(f) == f.Page * f.PageSize
offset(f) == (f.Page - 1) * f.PageSize

\* the columnMap of BuildMovieQuery, with its fallback
MovieColumn(col) ==
    IF col = <<"id">> THEN "m.id"
    ELSE IF col = <<"title">> THEN "m.title"
    ELSE IF col = <<"year">> THEN "m.year"
    ELSE IF col = <<"runtime">> THEN "m.runtime"
    ELSE "m.id"

SelectMovies ==
    Text("SELECT count(*) OVER(), m.id, m.created_at, m.updated_at, m.title, m.year, m.runtime, m.version FROM movies m")

\* the columnMap of BuildReviewQuery, with its fallback
ReviewColumn(col) ==
    IF col = <<"id">> THEN "r.id"
    ELSE IF col = <<"rating">> THEN "r.rating"
    ELSE IF col = <<"upvotes">> THEN "r.upvotes"
    ELSE IF col = <<"downvotes">> THEN "r.downvotes"
    ELSE IF col = <<"created_at">> THEN "r.created_at"
    ELSE "r.created_at"

SelectReviews ==
    Text("SELECT count(*) OVER(), r.id, u.name as user_name, r.text, r.rating, r.created_at, r.upvotes, r.downvotes, r.edited FROM review r JOIN users u ON r.user_id = u.id")

NoBuilt == [args |-> <<>>, query |-> <<>>, from |-> "none", pkg |-> "none",
            panicked |-> FALSE, filters |-> NoSpec]

\* variant: ORDER BY is formatted with the trimmed sort key itself
BuildMovieQuery_RawColumn(b, f) ==
    LET whereClause == IF Len(b.conditions) > 0
                       THEN <<Text("WHERE ")>> \o Join(b.conditions) ELSE <<>>
    IN  [args |-> b.args \o <<IntArg(limit(f)), IntArg(offset(f))>>,
         query |-> <<SelectMovies>> \o whereClause
                    \o <<Text("ORDER BY "), Text(sortColumn(f)[1]),
                         Text(sortDirection(f)), Text(", m.id ASC"),
                         Text("LIMIT "), Placeholder(b.argCount + 1),
                         Text("OFFSET "), Placeholder(b.argCount + 2)>>]

\* variant: ORDER BY names the sort column only, without the id tiebreaker
BuildMovieQuery_NoTiebreak(b, f) ==
    LET whereClause == IF Len(b.conditions) > 0
                       THEN <<Text("WHERE ")>> \o Join(b.conditions) ELSE <<>>
    IN  [args |-> b.args \o <<IntArg(limit(f)), IntArg(offset(f))>>,
         query |-> <<SelectMovies>> \o whereClause
                    \o <<Text("ORDER BY "), Text(MovieColumn(sortColumn(f))),
                         Text(sortDirection(f)),
                         Text("LIMIT "), Placeholder(b.argCount + 1),
                         Text("OFFSET "), Placeholder(b.argCount + 2)>>]

\* filters.QueryBuilder.BuildMovieQuery: WHERE only when there are conditions
BuildMovieQuery(b, f) ==
    LET whereClause == IF Len(b.conditions) > 0
                       THEN <<Text("WHERE ")>> \o Join(b.conditions) ELSE <<>>
    IN  [args |-> b.args \o <<IntArg(limit(f)), IntArg(offset(f))>>,
         query |-> <<SelectMovies>> \o whereClause
                    \o <<Text("ORDER BY "), Text(MovieColumn(sortColumn(f))),
                         Text(sortDirection(f)), Text(", m.id ASC"),
                         Text("LIMIT "), Placeholder(b.argCount + 1),
                         Text("OFFSET "), Placeholder(b.argCount + 2)>>]

\* filters.QueryBuilder.BuildReviewQuery
BuildReviewQuery(b, f) ==
    LET whereClause == IF Len(b.conditions) > 0
                       THEN <<Text("WHERE ")>> \o Join(b.conditions) ELSE <<>>
    IN  [args |-> b.args \o <<IntArg(limit(f)), IntArg(offset(f))>>,
         query |-> <<SelectReviews>> \o whereClause
                    \o <<Text("ORDER BY "), Text(ReviewColumn(sortColumn(f))),
                         Text(sortDirection(f)), Text(", r.id ASC"),
                         Text("LIMIT "), Placeholder(b.argCount + 1),
                         Text("OFFSET "), Placeholder(b.argCount + 2)>>]

\* data.QueryBuilder.Build: "WHERE %s" is part of the format string, and the
\* sort column is the trimmed sort key itself
Build(b, f) ==
    [args |-> b.args \o <<IntArg(limit(f)), IntArg(offset(f))>>,
     query |-> <<SelectMovies, Text("WHERE ")>> \o Join(b.conditions)
                \o <<Text("ORDER BY ")>>
                \o [i \in 1..Len(sortColumn(f)) |-> Text(sortColumn(f)[i])]
                \o <<Text(sortDirection(f)), Text(", m.id ASC"),
                     Text("LIMIT "), Placeholder(b.argCount + 1),
                     Text("OFFSET "), Placeholder(b.argCount + 2)>>]

\* the Build of the builder's package
BuildOf(b, f) == IF b.kind = "data" THEN Build(b, f) ELSE BuildMovieQuery(b, f)

\* what a call of Build leaves: sortColumn panics on a key outside the safelist
Built(from, b, f, spec) ==
    IF sortSafe(f)
    THEN [args |-> BuildOf(b, f).args, query |-> BuildOf(b, f).query,
          from |-> from, pkg |-> b.kind, panicked |-> FALSE, filters |-> spec]
    ELSE [args |-> <<>>, query |-> <<>>,
          from |-> from, pkg |-> b.kind, panicked |-> TRUE, filters |-> spec]

\* what a call of BuildReviewQuery leaves
BuiltReview(from, b, f) ==
    IF sortSafe(f)
    THEN [args |-> BuildReviewQuery(b, f).args, query |-> BuildReviewQuery(b, f).query,
          from |-> from, pkg |-> b.kind, panicked |-> FALSE, filters |-> f]
    ELSE [args |-> <<>>, query |-> <<>>,
          from |-> from, pkg |-> b.kind, panicked |-> TRUE, filters |-> f]

\* ------------------------------------------------------------------------
\* The catalogue: tables movies, genres and movies_genres, and the built
\* query as PostgreSQL evaluates it
\* ------------------------------------------------------------------------
MovieRow(id, title, year, runtime, version) ==
    [id |-> id, title |-> title, year |-> year, runtime |-> runtime, version |-> version]
GenreRow(id, name) == [id |-> id, name |-> name]
MovieGenre(m, g) == [movie_id |-> m, genre_id |-> g]

\* the movies the clients create, in this order: two share a year, two a
\* runtime, two a title
MovieInputs ==
    << [title |-> "dune", year |-> 1990, runtime |-> 90],
       [title |-> "alien", year |-> 1990, runtime |-> 120],
       [title |-> "dune", year |-> 2000, runtime |-> 90] >>

\* GenreModel.UpsertBatch: INSERT ... ON CONFLICT (name) DO NOTHING; the rows of
\* genres after the names were upserted
RECURSIVE UpsertBatch(_, _)
UpsertBatch(tbl, genreNames) ==
    IF genreNames = <<>> THEN tbl
    ELSE UpsertBatch(
             IF \E g \in tbl : g.name = Head(genreNames) THEN tbl
             ELSE tbl \cup {GenreRow(Cardinality(tbl) + 1, Head(genreNames))},
             Tail(genreNames))

\* GenreModel.AttachGenresToMovie: the rows added to movies_genres
AttachGenresToMovie(movieID, attached) == {MovieGenre(movieID, g.id) : g \in attached}

\* genre ids of the rows of movies_genres of one movie
GenresOfMovie(m) == {row.genre_id : row \in {x \in movies_genres : x.movie_id = m}}

\* position of the first token equal to tok, 0 if there is none
IndexOf(seq, tok) ==
    IF \E i \in 1..Len(seq) : seq[i] = tok
    THEN CHOOSE i \in 1..Len(seq) : seq[i] = tok /\ \A j \in 1..(i - 1) : seq[j] # tok
    ELSE 0

\* the argument a placeholder token is bound to
ArgOf(args, tok) == args[tok.n]

\* the conditions of the WHERE clause of a query text
WhereTokens(query) ==
    LET w == IndexOf(query, Text("WHERE "))
        o == IndexOf(query, Text("ORDER BY "))
    IN  IF w = 0 THEN <<>> ELSE SubSeq(query, w + 1, o - 1)

RECURSIVE SplitAnd(_)
SplitAnd(tokens) ==
    IF tokens = <<>> THEN <<>>
    ELSE LET a == IndexOf(tokens, Text(" AND "))
         IN  IF a = 0 THEN <<tokens>>
             ELSE <<SubSeq(tokens, 1, a - 1)>> \o SplitAnd(SubSeq(tokens, a + 1, Len(tokens)))

\* one condition of the WHERE clause, evaluated on the row m of movies; a title
\* is one word, which the text search matches when it is the word asked for
EvalCondition(cond, args, m) ==
    IF cond[1] = Text("(to_tsvector('simple', m.title) @@ plainto_tsquery('simple', ")
    THEN (ArgOf(args, cond[2]).str # "" /\ ArgOf(args, cond[2]).str = m.title)
         \/ ArgOf(args, cond[4]).str = ""
    ELSE IF cond[1] = Text("m.id IN (SELECT movie_id FROM movies_genres WHERE genre_id = ANY(")
    THEN Cardinality({g \in GenresOfMovie(m.id) : Contains(ArgOf(args, cond[2]).arr, g)})
             = ArgOf(args, cond[4]).int
    ELSE IF cond[1] = Text("m.year >= ") THEN m.year >= ArgOf(args, cond[2]).int
    ELSE IF cond[1] = Text("m.year <= ") THEN m.year <= ArgOf(args, cond[2]).int
    ELSE IF cond[1] = Text("m.runtime >= ") THEN m.runtime >= ArgOf(args, cond[2]).int
    ELSE IF cond[1] = Text("m.runtime <= ") THEN m.runtime <= ArgOf(args, cond[2]).int
    ELSE FALSE

\* the rows of movies the WHERE clause admits
Matching(query, args) ==
    LET conds == SplitAnd(WhereTokens(query))
    IN  {m \in movies : \A i \in 1..Len(conds) : EvalCondition(conds[i], args, m)}

\* collation order of the titles of the catalogue
TitleRank(t) == IF t = "alien" THEN 1 ELSE 2

\* the value of a sort column of the row m
ColumnValue(m, col) ==
    IF col = Text("m.year") THEN m.year
    ELSE IF col = Text("m.runtime") THEN m.runtime
    ELSE IF col = Text("m.title") THEN TitleRank(m.title)
    ELSE m.id

\* the ORDER BY clause of a query text: <column> <direction>[, m.id ASC]
OrderBy(query) ==
    LET o == IndexOf(query, Text("ORDER BY "))
    IN  [column |-> query[o + 1], desc |-> query[o + 2] = Text("DESC"),
         tiebreak |-> query[o + 3] = Text(", m.id ASC")]

\* the clause puts a before b; rows it does not tell apart may come either way
Before(clause, a, b) ==
    LET ka == ColumnValue(a, clause.column)
        kb == ColumnValue(b, clause.column)
    IN  IF ka # kb
        THEN (IF clause.desc THEN ka > kb ELSE ka < kb)
        ELSE clause.tiebreak => a.id < b.id

\* the orders in which PostgreSQL may return the rows: every arrangement the
\* ORDER BY clause allows
ValidOrders(rows, query) ==
    LET clause == OrderBy(query)
        n == Cardinality(rows)
    IN  {ord \in [1..n -> rows] :
            \A i, j \in 1..n : i < j => (ord[i] # ord[j] /\ Before(clause, ord[i], ord[j]))}

\* variant: OFFSET is ignored, every page starts at the first row
Window_NoOffset(ord, query, args) ==
    LET lim == ArgOf(args, query[IndexOf(query, Text("LIMIT ")) + 1]).int
        last == IF lim < Len(ord) THEN lim ELSE Len(ord)
    IN  SubSeq(ord, 1, last)

\* LIMIT $n OFFSET $m applied to the ordered rows
Window(ord, query, args) ==
    LET lim == ArgOf(args, query[IndexOf(query, Text("LIMIT ")) + 1]).int
        off == ArgOf(args, query[IndexOf(query, Text("OFFSET ")) + 1]).int
        last == IF off + lim < Len(ord) THEN off + lim ELSE Len(ord)
    IN  SubSeq(ord, off + 1, last)

\* ------------------------------------------------------------------------
\* Validation, MovieModel.GetFiltered on the catalogue and listMoviesHandler
\* ------------------------------------------------------------------------
\* validator.Check: the key of a failed check is recorded
Check(errs, ok, key) == IF ok THEN errs ELSE errs \cup {key}

\* validator.PermittedValue
PermittedValue(value, permitted) == Contains(permitted, value)

\* variant: the sort key is not checked against the safelist
ValidatePageFilters_AnySort(errs, f) ==
    Check(Check(Check(Check(errs,
        f.Page > 0, "page"),
        f.Page <= 10000000, "page"),
        f.PageSize > 0, "page_size"),
        f.PageSize <= 100, "page_size")

\* variant: the upper limits of page and page_size are not checked
ValidatePageFilters_NoMaximum(errs, f) ==
    Check(Check(Check(errs,
        f.Page > 0, "page"),
        f.PageSize > 0, "page_size"),
        PermittedValue(f.Sort, f.SortSafelist), "sort")

\* filters.ValidatePageFilters
ValidatePageFilters(errs, f) ==
    Check(Check(Check(Check(Check(errs,
        f.Page > 0, "page"),
        f.Page <= 10000000, "page"),
        f.PageSize > 0, "page_size"),
        f.PageSize <= 100, "page_size"),
        PermittedValue(f.Sort, f.SortSafelist), "sort")

\* data.ValidateFilters
ValidateFilters(errs, f) ==
    Check(Check(Check(Check(Check(errs,
        f.Page > 0, "page"),
        f.Page <= 10000000, "page"),
        f.PageSize > 0, "page_size"),
        f.PageSize <= 100, "page_size"),
        PermittedValue(f.Sort, f.SortSafelist), "sort")

\* time.Now().Year() when the requests are served
NowYear == 2026

\* filters.ValidateMovieFilters
ValidateMovieFilters(errs, f) ==
    Check(Check(Check(Check(Check(Check(ValidatePageFilters(errs, f),
        f.MinYear = 0 \/ f.MinYear >= 1888, "min_year"),
        f.MaxYear = 0 \/ f.MaxYear <= NowYear + 10, "max_year"),
        f.MinYear = 0 \/ f.MaxYear = 0 \/ f.MinYear <= f.MaxYear, "max_year"),
        f.MinRuntime = 0 \/ f.MinRuntime > 0, "min_runtime"),
        f.MaxRuntime = 0 \/ f.MaxRuntime <= 1000, "max_runtime"),
        f.MinRuntime = 0 \/ f.MaxRuntime = 0 \/ f.MinRuntime <= f.MaxRuntime, "max_runtime")

\* data.Metadata
Metadata(currentPage, pageSize, firstPage, lastPage, totalRecords) ==
    [PageSize |-> pageSize, CurrentPage |-> currentPage, FirstPage |-> firstPage,
     LastPage |-> lastPage, TotalRecords |-> totalRecords]

\* variant: the last page is rounded down
calculateMetadata_RoundedDown(totalRecords, page, pageSize) ==
    IF totalRecords = 0 THEN Metadata(0, 0, 0, 0, 0)
    ELSE Metadata(page, pageSize, 1, totalRecords \div pageSize, totalRecords)

\* data.calculateMetadata
calculateMetadata(totalRecords, page, pageSize) ==
    IF totalRecords = 0 THEN Metadata(0, 0, 0, 0, 0)
    ELSE Metadata(page, pageSize, 1, (totalRecords + pageSize - 1) \div pageSize,
                  totalRecords)

\* the ids of a set, in ascending order
RECURSIVE Ascending(_)
Ascending(idSet) ==
    IF idSet = {} THEN <<>>
    ELSE LET least == CHOOSE x \in idSet : \A y \in idSet : x <= y
         IN  <<least>> \o Ascending(idSet \ {least})

\* GenreModel.GetIDsByNames: SELECT id FROM genres WHERE name = ANY($1)
GetIDsByNames(genreNames) ==
    Ascending({g.id : g \in {x \in genres : Contains(genreNames, x.name)}})

\* the query MovieModel.GetFiltered builds
GetFilteredQuery(genreIDs, mf) ==
    Built("GetFiltered",
          WithRuntimeRange(
            WithYearRange(
              WithGenres(WithTitle(NewQueryBuilder("filters"), mf.Title), genreIDs),
              mf.MinYear, mf.MaxYear),
            mf.MinRuntime, mf.MaxRuntime),
          mf, mf)

\* the faults of the database while GetFiltered runs: QueryContext fails, Scan
\* of a row fails, rows.Err() reports an iteration error
Faults == {"none", "query", "scan", "rows"}

\* variant: the total is the number of matching rows even when the page is empty
GetFiltered_CountsAll(genreIDs, mf, fault, ord) ==
    LET q == GetFilteredQuery(genreIDs, mf)
        rows == Window(ord, q.query, q.args)
    IN  IF q.panicked
        THEN [raised |-> "panic", err |-> "panic", ids |-> <<>>, total_records |-> 0]
        ELSE IF fault = "query"
        THEN [raised |-> "query", err |-> "query", ids |-> <<>>, total_records |-> 0]
        ELSE IF fault = "scan" /\ rows # <<>>
        THEN [raised |-> "scan", err |-> "ErrRecordNotFound", ids |-> <<>>,
              total_records |-> 0]
        ELSE IF fault = "rows"
        THEN [raised |-> "rows", err |-> "rows", ids |-> <<>>, total_records |-> 0]
        ELSE [raised |-> "nil", err |-> "nil",
              ids |-> [i \in 1..Len(rows) |-> rows[i].id],
              total_records |-> Len(ord)]

\* MovieModel.GetFiltered: what it returns when the database raises fault and
\* returns the rows in the order ord; raised is the error the database raised
GetFiltered(genreIDs, mf, fault, ord) ==
    LET q == GetFilteredQuery(genreIDs, mf)
        rows == Window(ord, q.query, q.args)
    IN  IF q.panicked
        THEN [raised |-> "panic", err |-> "panic", ids |-> <<>>, total_records |-> 0]
        ELSE IF fault = "query"
        THEN [raised |-> "query", err |-> "query", ids |-> <<>>, total_records |-> 0]
        ELSE IF fault = "scan" /\ rows # <<>>
        THEN [raised |-> "scan", err |-> "ErrRecordNotFound", ids |-> <<>>,
              total_records |-> 0]
        ELSE IF fault = "rows"
        THEN [raised |-> "rows", err |-> "rows", ids |-> <<>>, total_records |-> 0]
        ELSE [raised |-> "nil", err |-> "nil",
              ids |-> [i \in 1..Len(rows) |-> rows[i].id],
              total_records |-> IF rows = <<>> THEN 0 ELSE Len(ord)]

\* the orders the database may return for the query of GetFiltered
GetFilteredOrders(genreIDs, mf) ==
    LET q == GetFilteredQuery(genreIDs, mf)
    IN  IF q.panicked THEN {<<>>}
        ELSE ValidOrders(Matching(q.query, q.args), q.query)

\* nothing was asked of the database
NoRows == [raised |-> "nil", err |-> "nil", ids |-> <<>>, total_records |-> 0]

\* the request as answered: the filters and genre names it carried, what
\* GetFiltered returned, the keys of the validation errors, the model methods
\* that queried the database, and the metadata of the body
ListResponse(status, from, filters, names, r, errors, queries, metadata) ==
    [status |-> status, from |-> from, filters |-> filters, genreNames |-> names,
     raised |-> r.raised, err |-> r.err, ids |-> r.ids,
     total_records |-> r.total_records,
     errors |-> errors, queries |-> queries, metadata |-> metadata]

NoList == ListResponse("idle", "none", NoSpec, <<>>, NoRows, {}, <<>>,
                       Metadata(0, 0, 0, 0, 0))

\* ReviewFilters with its PageFilters
ReviewFilters(minRating, maxRating, minUpvotes, userID, page, pageSize, sort) ==
    [Page |-> page, PageSize |-> pageSize, Sort |-> sort,
     SortSafelist |-> ReviewSortSafelist,
     MinRating |-> minRating, MaxRating |-> maxRating, MinUpvotes |-> minUpvotes,
     UserID |-> userID]

\* the conversion uint8(n) of an int: the low 8 bits
Uint8(n) == n % 256

\* the integers read from the query string of a review list request
ReviewQuery(minRating, maxRating, minUpvotes, userID, sort) ==
    [user_id |-> userID, sort |-> sort, min_rating |-> minRating,
     max_rating |-> maxRating, min_upvotes |-> minUpvotes]

\* filters.ParseReviewFiltersFromQuery: page and page_size at their defaults,
\* no dates
ParseReviewFiltersFromQuery(qs) ==
    ReviewFilters(Uint8(qs.min_rating), Uint8(qs.max_rating), qs.min_upvotes,
                  qs.user_id, 1, 20, qs.sort)

\* filters.ValidateReviewFilters
ValidateReviewFilters(errs, f) ==
    Check(Check(Check(Check(Check(ValidatePageFilters(errs, f),
        f.MinRating <= 10, "min_rating"),
        f.MaxRating <= 10, "max_rating"),
        f.MinRating <= f.MaxRating \/ f.MaxRating = 0, "max_rating"),
        f.MinUpvotes >= 0, "min_upvotes"),
        f.UserID >= 0, "user_id")

\* a review list request: the query it carried, the filters parsed from it
\* and the keys of the validation errors
ReviewRequest(from, qs, filters, errors) ==
    [query |-> qs, from |-> from, filters |-> filters, errors |-> errors]

NoReviewRequest ==
    ReviewRequest("none", ReviewQuery(0, 0, 0, 0, <<>>),
                  ReviewFilters(0, 0, 0, 0, 0, 0, <<>>), {})

\* ------------------------------------------------------------------------
\* MovieModel.Update and the requests of updateMovieHandler
\* ------------------------------------------------------------------------
NoMovie == MovieRow(0, "", 0, 0, 0)

\* a request of updateMovieHandler: the Movie it holds, the version it
\* supplied to Update, the uncommitted row of its transaction and its error
UpdateState(phase, movie, supplied, write, err) ==
    [err |-> err, phase |-> phase, movie |-> movie, supplied |-> supplied,
     write |-> write]

NoUpdate == UpdateState("idle", NoMovie, 0, NoMovie, "nil")

\* variant: the statement does not compare the version
Update_AnyVersion(tbl, movie) ==
    LET hit == {r \in tbl : r.id = movie.id}
    IN  IF hit = {}
        THEN [row |-> movie, err |-> "ErrEditConflict"]
        ELSE [row |-> MovieRow(movie.id, movie.title, movie.year, movie.runtime,
                               (CHOOSE r \in hit : TRUE).version + 1),
              err |-> "nil"]

\* MovieModel.Update: UPDATE movies SET ..., version = version + 1
\* WHERE id = $4 and version = $5 RETURNING version, evaluated on the latest
\* committed rows tbl; no row gives sql.ErrNoRows, returned as ErrEditConflict
Update(tbl, movie) ==
    LET hit == {r \in tbl : r.id = movie.id /\ r.version = movie.version}
    IN  IF hit = {}
        THEN [row |-> movie, err |-> "ErrEditConflict"]
        ELSE [row |-> MovieRow(movie.id, movie.title, movie.year, movie.runtime,
                               (CHOOSE r \in hit : TRUE).version + 1),
              err |-> "nil"]

\* another transaction holds the row lock of an uncommitted UPDATE of the movie
RowLocked(p, id) ==
    \E q \in Procs \ {p} : upd[q].phase = "updated" /\ upd[q].movie.id = id

\* ------------------------------------------------------------------------
\* Init
\* ------------------------------------------------------------------------
Init ==
    /\ review_votes = {}
    /\ reviews = [r \in Reviews |-> [upvotes |-> 0, downvotes |-> 0]]
    /\ pc = [p \in Procs |-> "idle"]
    /\ call = [p \in Procs |-> NoCall]
    /\ currentVote = [p \in Procs |-> NoneVote]
    /\ voteWrite = [p \in Procs |-> NoWrite]
    /\ countWrite = [p \in Procs |-> NoCount]
    /\ result = [p \in Procs |-> NoResult]
    /\ nCalls = 0
    /\ pre = [p \in Procs |-> NoPre]
    /\ lastTwo = <<>>
    /\ qb = NoBuilder
    /\ built = NoBuilt
    /\ movies = {}
    /\ movies_genres = {}
    /\ genres = {}
    /\ list = NoList
    /\ pages = <<>>
    /\ upd = [p \in Procs |-> NoUpdate]
    /\ rv = NoReviewRequest

\* ------------------------------------------------------------------------
\* VoteReview, one action per statement
\* ------------------------------------------------------------------------
\* voteForReview validates the body and VoteReview opens the transaction
Begin(p, reviewID, userID, voteType) ==
    /\ pc[p] = "idle"
    /\ nCalls < MaxCalls
    /\ ~(voteType > 1 \/ voteType < -1)
    /\ nCalls' = nCalls + 1
    /\ pc' = [pc EXCEPT ![p] = "getCurrentVote"]
    /\ call' = [call EXCEPT ![p] =
                  [reviewID |-> reviewID, userID |-> userID, voteType |-> voteType]]
    /\ currentVote' = [currentVote EXCEPT ![p] = NoneVote]
    /\ result' = [result EXCEPT ![p] = NoResult]
    /\ UNCHANGED <<review_votes, reviews, voteWrite, countWrite, qb, built, catVars>>

\* variant: the vote-row statement ran outside the transaction, so it stays
Rollback_KeepsVoteWrite(p) ==
    /\ pc' = [pc EXCEPT ![p] = "idle"]
    /\ voteWrite' = [voteWrite EXCEPT ![p] = NoWrite]
    /\ countWrite' = [countWrite EXCEPT ![p] = NoCount]
    /\ result' = [result EXCEPT ![p] = [status |-> "error", at |-> pc[p]]]
    /\ call' = [call EXCEPT ![p] = NoCall]
    /\ currentVote' = [currentVote EXCEPT ![p] = NoneVote]
    /\ review_votes' = ApplyVoteWrite(review_votes, call[p].reviewID, call[p].userID,
                                      voteWrite[p])
    /\ UNCHANGED reviews

\* variant: VoteReview returns the error without rolling the transaction back
Rollback_LeavesOpen(p) ==
    /\ pc' = [pc EXCEPT ![p] = "idle"]
    /\ result' = [result EXCEPT ![p] = [status |-> "error", at |-> pc[p]]]
    /\ UNCHANGED <<voteWrite, countWrite, call, currentVote, review_votes, reviews>>

\* tx.Rollback(): the deferred rollback discards the writes and frees the locks
Rollback(p) ==
    /\ pc' = [pc EXCEPT ![p] = "idle"]
    /\ voteWrite' = [voteWrite EXCEPT ![p] = NoWrite]
    /\ countWrite' = [countWrite EXCEPT ![p] = NoCount]
    /\ result' = [result EXCEPT ![p] = [status |-> "error", at |-> pc[p]]]
    /\ call' = [call EXCEPT ![p] = NoCall]
    /\ currentVote' = [currentVote EXCEPT ![p] = NoneVote]
    /\ UNCHANGED <<review_votes, reviews>>

getCurrentVote(p) ==
    /\ pc[p] = "getCurrentVote"
    /\ currentVote' = [currentVote EXCEPT ![p] =
                          getCurrentVoteValue(call[p].reviewID, call[p].userID)]
    /\ pc' = [pc EXCEPT ![p] = "updateVote"]
    /\ UNCHANGED <<review_votes, reviews, call, voteWrite, countWrite, result,
                   nCalls, qb, built, catVars>>

\* deleteVote / updateVote: DELETE and UPDATE wait for the row lock and then act
\* on the latest committed row (none: zero rows affected, no error); INSERT waits
\* for an uncommitted write on its key and then fails on a duplicate key
updateVote(p) ==
    LET r == call[p].reviewID
        u == call[p].userID
        stmt == VoteStatement(currentVote[p], call[p].voteType)
    IN  /\ pc[p] = "updateVote"
        /\ (stmt = "insert" \/ RowsOf(r, u) # {}) => VoteRowBlockers(p) = {}
        /\ IF stmt = "insert" /\ UniqueViolation(r, u)
           THEN /\ Rollback(p)
                /\ UNCHANGED <<nCalls, qb, built, catVars>>
           ELSE /\ voteWrite' = [voteWrite EXCEPT ![p] =
                      IF stmt # "insert" /\ RowsOf(r, u) = {} THEN NoWrite
                      ELSE [op |-> stmt, vote_type |-> call[p].voteType]]
                /\ pc' = [pc EXCEPT ![p] = "updateVoteCounts"]
                /\ UNCHANGED <<review_votes, reviews, call, currentVote, countWrite,
                               result, nCalls, qb, built, catVars>>

\* UPDATE reviews SET upvotes = GREATEST(0, upvotes + $2), ... WHERE id = $1
updateVoteCounts(p) ==
    LET r == call[p].reviewID
        upvoteDelta == calculateDelta(currentVote[p], call[p].voteType, Upvote)
        downvoteDelta == calculateDelta(currentVote[p], call[p].voteType, Downvote)
    IN  /\ pc[p] = "updateVoteCounts"
        /\ ReviewRowBlockers(p) = {}
        /\ countWrite' = [countWrite EXCEPT ![p] =
              [set |-> TRUE,
               upvotes |-> Greatest0(reviews[r].upvotes + upvoteDelta),
               downvotes |-> Greatest0(reviews[r].downvotes + downvoteDelta)]]
        /\ pc' = [pc EXCEPT ![p] = "Commit"]
        /\ UNCHANGED <<review_votes, reviews, call, currentVote, voteWrite, result,
                       nCalls, qb, built, catVars>>

\* tx.Commit(): both writes become visible to other transactions at once
Commit(p) ==
    /\ pc[p] = "Commit"
    /\ review_votes' = ApplyVoteWrite(review_votes, call[p].reviewID, call[p].userID,
                                      voteWrite[p])
    /\ reviews' = ApplyCountWrite(reviews, call[p].reviewID, countWrite[p])
    /\ pc' = [pc EXCEPT ![p] = "idle"]
    /\ voteWrite' = [voteWrite EXCEPT ![p] = NoWrite]
    /\ countWrite' = [countWrite EXCEPT ![p] = NoCount]
    /\ result' = [result EXCEPT ![p] = [status |-> "committed", at |-> pc[p]]]
    /\ call' = [call EXCEPT ![p] = NoCall]
    /\ currentVote' = [currentVote EXCEPT ![p] = NoneVote]
    /\ UNCHANGED <<nCalls, qb, built, catVars>>

\* a statement or the commit returns an error (storage failure, context
\* cancelled or timed out): VoteReview returns it and the deferred Rollback runs
Fail(p) ==
    /\ InFlight(p)
    /\ Rollback(p)
    /\ UNCHANGED <<nCalls, qb, built, catVars>>

\* the history variables are not kept
NoHistory == UNCHANGED <<pre, lastTwo>>

\* the next statement of request p
Step(p) ==
    /\ getCurrentVote(p) \/ updateVote(p) \/ updateVoteCounts(p) \/ Commit(p)
    /\ NoHistory

\* the history variables follow a step of request p: pre takes the committed
\* vote and counters of the key when the request begins, lastTwo receives the
\* request when it commits
History(p) ==
    /\ pre' = IF pc'[p] = "idle" THEN [pre EXCEPT ![p] = NoPre]
              ELSE IF pc[p] = "idle"
                  THEN [pre EXCEPT ![p] =
                          [upvotes |-> reviews[call'[p].reviewID].upvotes,
                           downvotes |-> reviews[call'[p].reviewID].downvotes,
                           vote |-> getCurrentVoteValue(call'[p].reviewID, call'[p].userID)]]
              ELSE pre
    /\ lastTwo' = IF pc[p] = "Commit" /\ result'[p].status = "committed"
                  THEN (IF Len(lastTwo) = 2 THEN <<lastTwo[2]>> ELSE lastTwo)
                         \o <<[reviewID |-> call[p].reviewID, userID |-> call[p].userID,
                               voteType |-> call[p].voteType, pre |-> pre[p]]>>
                  ELSE lastTwo

Next ==
    \/ \E p \in Procs, r \in Reviews, u \in Users, v \in VoteInputs :
          Begin(p, r, u, v) /\ NoHistory
    \/ \E p \in Procs : getCurrentVote(p) /\ NoHistory
    \/ \E p \in Procs : updateVote(p) /\ NoHistory
    \/ \E p \in Procs : updateVoteCounts(p) /\ NoHistory
    \/ \E p \in Procs : Commit(p) /\ NoHistory
    \/ \E p \in Procs : Fail(p) /\ NoHistory

Spec == Init /\ [][Next]_vars

\* the scheduler runs every open transaction's next statement once it can run
FairSpec == Init /\ [][Next]_vars /\ \A p \in Procs : WF_vars(Step(p))

\* concurrent requests, with the history variables kept
HistNext ==
    \/ \E p \in Procs, r \in Reviews, u \in Users, v \in VoteInputs :
          Begin(p, r, u, v) /\ History(p)
    \/ \E p \in Procs : getCurrentVote(p) /\ History(p)
    \/ \E p \in Procs : updateVote(p) /\ History(p)
    \/ \E p \in Procs : updateVoteCounts(p) /\ History(p)
    \/ \E p \in Procs : Commit(p) /\ History(p)
    \/ \E p \in Procs : Fail(p) /\ History(p)

SpecHist == Init /\ [][HistNext]_vars

\* requests executed one at a time: a request starts only when none is in flight
SeqNext ==
    \/ \E p \in Procs, r \in Reviews, u \in Users, v \in VoteInputs :
          Quiescent /\ Begin(p, r, u, v) /\ History(p)
    \/ \E p \in Procs : getCurrentVote(p) /\ History(p)
    \/ \E p \in Procs : updateVote(p) /\ History(p)
    \/ \E p \in Procs : updateVoteCounts(p) /\ History(p)
    \/ \E p \in Procs : Commit(p) /\ History(p)
    \/ \E p \in Procs : Fail(p) /\ History(p)

SpecSeq == Init /\ [][SeqNext]_vars

\* concurrent requests by different voters: a request starts only when no
\* request of the same user is in flight
VotersNext ==
    \/ \E p \in Procs, r \in Reviews, u \in Users, v \in VoteInputs :
          /\ \A q \in Procs : InFlight(q) => call[q].userID # u
          /\ Begin(p, r, u, v) /\ History(p)
    \/ \E p \in Procs : getCurrentVote(p) /\ History(p)
    \/ \E p \in Procs : updateVote(p) /\ History(p)
    \/ \E p \in Procs : updateVoteCounts(p) /\ History(p)
    \/ \E p \in Procs : Commit(p) /\ History(p)
    \/ \E p \in Procs : Fail(p) /\ History(p)

SpecVoters == Init /\ [][VotersNext]_vars

\* ------------------------------------------------------------------------
\* The query builders, call by call and as GetFiltered chains them
\* ------------------------------------------------------------------------
Titles == {"", "dune"}
GenreIDLists == {<<>>, <<1>>, <<1, 2>>}
Years == {0, 1990}
Runtimes == {0, 90}
Pages == {1, 2}
PageSizes == {1, 20}
SortKeys == {<<"id">>, <<"-", "title">>, <<"year">>, <<"bogus">>}

CanAdd == qb.kind # "none" /\ Len(qb.conditions) < MaxConditions

QBNew(pkg) ==
    /\ qb' = NewQueryBuilder(pkg)
    /\ built' = NoBuilt
    /\ UNCHANGED <<voteVars, catVars>>

QBAddTitleFilter(title) ==
    /\ CanAdd
    /\ qb' = AddTitleFilter(qb, title)
    /\ UNCHANGED <<built, voteVars, catVars>>

QBAddGenreFilter(genreIDs) ==
    /\ CanAdd
    /\ qb' = AddGenreFilter(qb, genreIDs)
    /\ UNCHANGED <<built, voteVars, catVars>>

QBAddYearRangeFilter(minYear, maxYear) ==
    /\ CanAdd
    /\ qb.kind = "filters"
    /\ qb' = AddYearRangeFilter(qb, minYear, maxYear)
    /\ UNCHANGED <<built, voteVars, catVars>>

QBAddRuntimeRangeFilter(minRuntime, maxRuntime) ==
    /\ CanAdd
    /\ qb.kind = "filters"
    /\ qb' = AddRuntimeRangeFilter(qb, minRuntime, maxRuntime)
    /\ UNCHANGED <<built, voteVars, catVars>>

QBWithTitle(title) ==
    /\ CanAdd
    /\ qb.kind = "filters"
    /\ qb' = WithTitle(qb, title)
    /\ UNCHANGED <<built, voteVars, catVars>>

QBWithGenres(genreIDs) ==
    /\ CanAdd
    /\ qb.kind = "filters"
    /\ qb' = WithGenres(qb, genreIDs)
    /\ UNCHANGED <<built, voteVars, catVars>>

\* values fed to the review filters: ratings are uint8, dates are days
Ratings == {0, 5, 11}
Upvotes == {0, 3}
Dates == {0, 7}
UserIDs == {0, 4}
MovieIDs == {0, 1}
ReviewSortKeys == {<<"-", "created_at">>, <<"rating">>, <<"bogus">>}

QBAddRatingFilter(minRating, maxRating) ==
    /\ CanAdd
    /\ qb.kind = "filters"
    /\ qb' = AddRatingFilter(qb, minRating, maxRating)
    /\ UNCHANGED <<built, voteVars, catVars>>

QBAddUpvotesFilter(minUpvotes) ==
    /\ CanAdd
    /\ qb.kind = "filters"
    /\ qb' = AddUpvotesFilter(qb, minUpvotes)
    /\ UNCHANGED <<built, voteVars, catVars>>

QBAddDateRangeFilter(dateFrom, dateTo) ==
    /\ CanAdd
    /\ qb.kind = "filters"
    /\ qb' = AddDateRangeFilter(qb, dateFrom, dateTo)
    /\ UNCHANGED <<built, voteVars, catVars>>

QBAddUserFilter(userID) ==
    /\ CanAdd
    /\ qb.kind = "filters"
    /\ qb' = AddUserFilter(qb, userID)
    /\ UNCHANGED <<built, voteVars, catVars>>

QBAddMovieFilter(movieID) ==
    /\ CanAdd
    /\ qb.kind = "filters"
    /\ qb' = AddMovieFilter(qb, movieID)
    /\ UNCHANGED <<built, voteVars, catVars>>

\* BuildReviewQuery on the builder as it stands; the builder is not used again
QBBuildReviewQuery(page, pageSize, sort) ==
    /\ qb.kind = "filters"
    /\ built' = BuiltReview("BuildReviewQuery", qb, ReviewFilterSpec(page, pageSize, sort))
    /\ qb' = NoBuilder
    /\ UNCHANGED <<voteVars, catVars>>

\* Build on the builder as it stands; the builder is not used again
QBBuild(page, pageSize, sort) ==
    /\ qb.kind # "none"
    /\ built' = Built("Build", qb, FilterSpec("", <<>>, 0, 0, 0, 0, page, pageSize, sort),
                      FilterSpec("", <<>>, 0, 0, 0, 0, page, pageSize, sort))
    /\ qb' = NoBuilder
    /\ UNCHANGED <<voteVars, catVars>>

\* MovieModel.GetFiltered over package filters, one request from a fresh start:
\* NewMovieQueryBuilder().WithTitle().WithGenres().WithYearRange().WithRuntimeRange().Build()
MovieGetFiltered(mf) ==
    /\ qb.kind = "none"
    /\ built.from = "none"
    /\ built' = Built("GetFiltered",
                      WithRuntimeRange(
                        WithYearRange(
                          WithGenres(WithTitle(NewQueryBuilder("filters"), mf.Title),
                                     mf.GenreIDs),
                          mf.MinYear, mf.MaxYear),
                        mf.MinRuntime, mf.MaxRuntime),
                      mf, mf)
    /\ UNCHANGED <<qb, voteVars, catVars>>

\* MovieModel.GetFiltered over package data, as listMoviesHandler of
\* cmd/api/main.go calls it: NewQueryBuilder().AddTitleFilter().AddGenreFilter().Build()
DataGetFiltered(mf) ==
    /\ qb.kind = "none"
    /\ built.from = "none"
    /\ built' = Built("GetFiltered",
                      AddGenreFilter(AddTitleFilter(NewQueryBuilder("data"), mf.Title),
                                     mf.GenreIDs),
                      mf, mf)
    /\ UNCHANGED <<qb, voteVars, catVars>>

QBNext ==
    \/ \E pkg \in {"data", "filters"} : QBNew(pkg)
    \/ \E t \in Titles : QBAddTitleFilter(t)
    \/ \E g \in GenreIDLists : QBAddGenreFilter(g)
    \/ \E lo \in Years, hi \in Years : QBAddYearRangeFilter(lo, hi)
    \/ \E lo \in Runtimes, hi \in Runtimes : QBAddRuntimeRangeFilter(lo, hi)
    \/ \E t \in Titles : QBWithTitle(t)
    \/ \E g \in GenreIDLists : QBWithGenres(g)
    \/ \E pg \in Pages, ps \in PageSizes, k \in SortKeys : QBBuild(pg, ps, k)
    \/ \E lo \in Ratings, hi \in Ratings : QBAddRatingFilter(lo, hi)
    \/ \E n \in Upvotes : QBAddUpvotesFilter(n)
    \/ \E d1 \in Dates, d2 \in Dates : QBAddDateRangeFilter(d1, d2)
    \/ \E u \in UserIDs : QBAddUserFilter(u)
    \/ \E m \in MovieIDs : QBAddMovieFilter(m)
    \/ \E pg \in Pages, ps \in PageSizes, k \in ReviewSortKeys :
          QBBuildReviewQuery(pg, ps, k)
    \/ \E t \in Titles, g \in GenreIDLists, y1 \in Years, y2 \in Years,
          r1 \in Runtimes, r2 \in Runtimes, pg \in Pages, ps \in PageSizes, k \in SortKeys :
          MovieGetFiltered(FilterSpec(t, g, y1, y2, r1, r2, pg, ps, k))
    \/ \E t \in Titles, g \in GenreIDLists, pg \in Pages, ps \in PageSizes, k \in SortKeys :
          DataGetFiltered(FilterSpec(t, g, 0, 0, 0, 0, pg, ps, k))

SpecQB == Init /\ [][QBNext]_vars

\* ------------------------------------------------------------------------
\* The catalogue requests: POST /v1/movies, MovieModel.GetFiltered called
\* page after page, GET /v1/movies
\* ------------------------------------------------------------------------
GenreNameLists == {<<"drama">>, <<"scifi">>, <<"drama", "scifi">>}
RequestedGenres == {<<>>, <<"drama", "scifi">>, <<"noir">>, <<"drama", "noir">>}
RequestedGenreIDs == {<<>>, <<1>>, <<1, 2>>, <<2, 1>>, <<2, 3>>}
ListPages == {0, 1, 2}
ListPageSizes == {2, 101}
ListSortKeys == {<<"id">>, <<"-", "year">>, <<"bogus">>}
CallPages == {1, 2}
CallPageSizes == {1, 2}
CallSortKeys == {<<"id">>, <<"-", "year">>, <<"runtime">>, <<"title">>}
MinYears == {0, 2000}
MaxYears == {0, 1990}
\* page, page_size and sort values around the limits of ValidatePageFilters
CheckedPages == {-1, 0, 1, 10000000, 10000001}
CheckedPageSizes == {-1, 0, 1, 100, 101}
CheckedSortKeys == {<<"id">>, <<"-", "year">>, <<"bogus">>, <<"-", "bogus">>, <<>>}

\* totals, pages and page sizes handed to calculateMetadata
MetadataTotals == {0, 1, 5, 20, 21, 41}
MetadataPages == {1, 2, 3}
MetadataPageSizes == {1, 20, 100}

HandlerFaults == Faults \cup {"genres", "load"}

\* createMovieHandler: one transaction upserts the genres, inserts the movie
\* and attaches the genres; the catalogue is filled before it is listed
createMovieHandler(genreNames) ==
    /\ list.status = "idle"
    /\ Cardinality(movies) < Len(MovieInputs)
    /\ LET id == Cardinality(movies) + 1
           input == MovieInputs[id]
           upserted == UpsertBatch(genres, genreNames)
       IN  /\ genres' = upserted
           /\ movies' = movies \cup
                  {MovieRow(id, input.title, input.year, input.runtime, 1)}
           /\ movies_genres' = movies_genres \cup
                  AttachGenresToMovie(id, {g \in upserted : Contains(genreNames, g.name)})
    /\ UNCHANGED <<list, pages, upd, rv, voteVars, qbVars>>

\* MovieModel.GetFiltered called with validated filters
GetFilteredCall(genreIDs, page, pageSize, sort, fault) ==
    LET mf == FilterSpec("", genreIDs, 0, 0, 0, 0, page, pageSize, sort)
    IN  /\ list.status = "idle"
        /\ \E ord \in GetFilteredOrders(genreIDs, mf) :
              LET r == GetFiltered(genreIDs, mf, fault, ord)
              IN  /\ list' = ListResponse("returned", "GetFiltered", mf, <<>>, r, {},
                                          <<"GetFiltered">>, Metadata(0, 0, 0, 0, 0))
                  /\ pages' = IF r.err = "nil" /\ page = 1 THEN <<r.ids>> ELSE <<>>
        /\ UNCHANGED <<movies, movies_genres, genres, upd, rv, voteVars, qbVars>>

\* the client asks for the page after the last one it received, with the same
\* filters, until a page comes back empty
NextPage ==
    /\ list.status = "returned"
    /\ pages # <<>>
    /\ pages[Len(pages)] # <<>>
    /\ LET mf == [list.filters EXCEPT !.Page = Len(pages) + 1]
       IN  \E ord \in GetFilteredOrders(mf.GenreIDs, mf) :
              LET r == GetFiltered(mf.GenreIDs, mf, "none", ord)
              IN  /\ list' = ListResponse("returned", "GetFiltered", mf, <<>>, r, {},
                                          <<"GetFiltered">>, Metadata(0, 0, 0, 0, 0))
                  /\ pages' = Append(pages, r.ids)
    /\ UNCHANGED <<movies, movies_genres, genres, upd, rv, voteVars, qbVars>>

\* filters.ValidatePageFilters called with a fresh validator
ValidatePageFiltersCall(page, pageSize, sort) ==
    LET f == FilterSpec("", <<>>, 0, 0, 0, 0, page, pageSize, sort)
    IN  /\ list.status = "idle"
        /\ list' = ListResponse("validated", "ValidatePageFilters", f, <<>>, NoRows,
                                ValidatePageFilters({}, f), <<>>,
                                Metadata(0, 0, 0, 0, 0))
        /\ UNCHANGED <<movies, movies_genres, genres, pages, upd, rv, voteVars, qbVars>>

\* data.ValidateFilters called with a fresh validator
ValidateFiltersCall(page, pageSize, sort) ==
    LET f == FilterSpec("", <<>>, 0, 0, 0, 0, page, pageSize, sort)
    IN  /\ list.status = "idle"
        /\ list' = ListResponse("validated", "ValidateFilters", f, <<>>, NoRows,
                                ValidateFilters({}, f), <<>>,
                                Metadata(0, 0, 0, 0, 0))
        /\ UNCHANGED <<movies, movies_genres, genres, pages, upd, rv, voteVars, qbVars>>

\* calculateMetadata called with the total of a list query
calculateMetadataCall(totalRecords, page, pageSize) ==
    /\ list.status = "idle"
    /\ list' = ListResponse("returned", "calculateMetadata",
                            FilterSpec("", <<>>, 0, 0, 0, 0, page, pageSize, <<"id">>),
                            <<>>, [NoRows EXCEPT !.total_records = totalRecords],
                            {}, <<>>, calculateMetadata(totalRecords, page, pageSize))
    /\ UNCHANGED <<movies, movies_genres, genres, pages, upd, rv, voteVars, qbVars>>

\* listMoviesHandler: GET /v1/movies
listMoviesHandler(title, genreNames, minYear, maxYear, page, pageSize, sort, fault) ==
    LET parsed == FilterSpec(title, <<>>, minYear, maxYear, 0, 0, page, pageSize, sort)
        errors == ValidateMovieFilters({}, parsed)
        genreIDs == GetIDsByNames(genreNames)
        mf == [parsed EXCEPT !.GenreIDs = genreIDs]
        none == Metadata(0, 0, 0, 0, 0)
    IN  /\ list.status = "idle"
        /\ IF errors # {}
           THEN list' = ListResponse("failedValidation", "listMoviesHandler", parsed,
                                     genreNames, NoRows, errors, <<>>, none)
           ELSE IF fault = "genres"
           THEN list' = ListResponse("serverError", "listMoviesHandler", parsed,
                                     genreNames, [NoRows EXCEPT !.raised = "genres",
                                                                !.err = "genres"],
                                     {}, <<"GetIDsByNames">>, none)
           ELSE \E ord \in GetFilteredOrders(genreIDs, mf) :
                  LET r == GetFiltered(genreIDs, mf, fault, ord)
                  IN  IF r.err = "ErrRecordNotFound"
                      THEN list' = ListResponse("notFound", "listMoviesHandler", mf,
                                       genreNames, r, {},
                                       <<"GetIDsByNames", "GetFiltered">>, none)
                      ELSE IF r.err # "nil"
                      THEN list' = ListResponse("serverError", "listMoviesHandler", mf,
                                       genreNames, r, {},
                                       <<"GetIDsByNames", "GetFiltered">>, none)
                      ELSE IF fault = "load" /\ r.ids # <<>>
                      THEN list' = ListResponse("serverError", "listMoviesHandler", mf,
                                       genreNames, [NoRows EXCEPT !.raised = "load",
                                                                  !.err = "load"],
                                       {}, <<"GetIDsByNames", "GetFiltered",
                                             "LoadGenresForMovies">>, none)
                      ELSE list' = ListResponse("ok", "listMoviesHandler", mf,
                                       genreNames, r, {},
                                       IF r.ids = <<>>
                                       THEN <<"GetIDsByNames", "GetFiltered">>
                                       ELSE <<"GetIDsByNames", "GetFiltered",
                                              "LoadGenresForMovies">>,
                                       calculateMetadata(r.total_records, mf.Page,
                                                         mf.PageSize))
        /\ UNCHANGED <<movies, movies_genres, genres, pages, upd, rv, voteVars, qbVars>>

\* movie ids and titles of the PATCH /v1/movies/:id requests
UpdateIDs == {1, 2}
UpdateTitles == {"alien", "dune"}

\* updateMovieHandler up to BeginTx: Movies.Get, readJSON, ValidateMovie
MovieGet(p, id, title) ==
    /\ upd[p].phase = "idle"
    /\ list.status = "idle"
    /\ LET found == {r \in movies : r.id = id}
       IN  IF found = {}
           THEN upd' = [upd EXCEPT ![p] = UpdateState("done", NoMovie, 0, NoMovie,
                                                      "ErrRecordNotFound")]
           ELSE LET r == CHOOSE row \in found : TRUE
                IN  upd' = [upd EXCEPT ![p] = UpdateState("read",
                                [r EXCEPT !.title = title], r.version, NoMovie, "nil")]
    /\ UNCHANGED <<movies, movies_genres, genres, list, pages, rv, voteVars, qbVars>>

\* Movies.Update inside the transaction; the statement waits while another
\* transaction holds the row lock and then sees the latest committed row
MovieUpdate(p) ==
    /\ upd[p].phase = "read"
    /\ ~RowLocked(p, upd[p].movie.id)
    /\ LET u == Update(movies, upd[p].movie)
       IN  IF u.err = "nil"
           THEN upd' = [upd EXCEPT ![p] = UpdateState("updated", u.row,
                                              upd[p].supplied, u.row, "nil")]
           ELSE upd' = [upd EXCEPT ![p] = UpdateState("done", upd[p].movie,
                                              upd[p].supplied, NoMovie, u.err)]
    /\ UNCHANGED <<movies, movies_genres, genres, list, pages, rv, voteVars, qbVars>>

\* tx.Commit of updateMovieHandler
MovieCommit(p) ==
    /\ upd[p].phase = "updated"
    /\ movies' = {r \in movies : r.id # upd[p].write.id} \cup {upd[p].write}
    /\ upd' = [upd EXCEPT ![p].phase = "done"]
    /\ UNCHANGED <<movies_genres, genres, list, pages, rv, voteVars, qbVars>>

\* the request context ends (3 s timeout, client gone) or Commit fails: the
\* deferred tx.Rollback discards the write and frees the row lock
MovieFail(p) ==
    /\ upd[p].phase \in {"read", "updated"}
    /\ upd' = [upd EXCEPT ![p] = UpdateState("done", upd[p].movie, upd[p].supplied,
                                             NoMovie, "aborted")]
    /\ UNCHANGED <<movies, movies_genres, genres, list, pages, rv, voteVars, qbVars>>

UpdateNext ==
    \/ \E names \in GenreNameLists : createMovieHandler(names)
    \/ \E p \in Procs, id \in UpdateIDs, t \in UpdateTitles : MovieGet(p, id, t)
    \/ \E p \in Procs : MovieUpdate(p)
    \/ \E p \in Procs : MovieCommit(p)
    \/ \E p \in Procs : MovieFail(p)

SpecUpdate == Init /\ [][UpdateNext]_vars

\* the query parameters of the review list requests: ratings around 10 and
\* around the 8-bit limit
QueryRatings == {-1, 0, 5, 10, 11, 255, 256, 261}
QueryUpvotes == {-1, 0, 3}
QueryUserIDs == {-1, 0, 4}

\* a review list handler up to the validation: ParseReviewFiltersFromQuery,
\* then ValidateReviewFilters on a fresh validator
ValidateReviewFiltersCall(minRating, maxRating, minUpvotes, userID, sort) ==
    LET qs == ReviewQuery(minRating, maxRating, minUpvotes, userID, sort)
        parsed == ParseReviewFiltersFromQuery(qs)
    IN  /\ rv.from = "none"
        /\ rv' = ReviewRequest("ValidateReviewFilters", qs, parsed,
                               ValidateReviewFilters({}, parsed))
        /\ UNCHANGED <<movies, movies_genres, genres, list, pages, upd, voteVars, qbVars>>

ReviewNext ==
    \E lo \in QueryRatings, hi \in QueryRatings, n \in QueryUpvotes,
       u \in QueryUserIDs, k \in ReviewSortKeys :
        ValidateReviewFiltersCall(lo, hi, n, u, k)

SpecReview == Init /\ [][ReviewNext]_vars

ListNext ==
    \/ \E names \in GenreNameLists : createMovieHandler(names)
    \/ \E g \in RequestedGenreIDs, pg \in CallPages, ps \in CallPageSizes,
          k \in CallSortKeys, fault \in Faults : GetFilteredCall(g, pg, ps, k, fault)
    \/ NextPage
    \/ \E t \in Titles, names \in RequestedGenres, y1 \in MinYears, y2 \in MaxYears,
          pg \in ListPages, ps \in ListPageSizes, k \in ListSortKeys,
          fault \in HandlerFaults :
          listMoviesHandler(t, names, y1, y2, pg, ps, k, fault)
    \/ \E pg \in CheckedPages, ps \in CheckedPageSizes, k \in CheckedSortKeys :
          ValidatePageFiltersCall(pg, ps, k)
    \/ \E pg \in CheckedPages, ps \in CheckedPageSizes, k \in CheckedSortKeys :
          ValidateFiltersCall(pg, ps, k)
    \/ \E n \in MetadataTotals, pg \in MetadataPages, ps \in MetadataPageSizes :
          calculateMetadataCall(n, pg, ps)

SpecList == Init /\ [][ListNext]_vars

\* ------------------------------------------------------------------------
\* Properties of the vote ledger
\* ------------------------------------------------------------------------
CountOf(r, v) ==
    Cardinality({row \in review_votes : row.review_id = r /\ row.vote_type = v})

\* vote row and counters that one VoteReview(voteType), run alone from the
\* committed state s, leaves behind
SerialEffect(s, voteType) ==
    [upvotes |-> Greatest0(s.upvotes + calculateDelta(s.vote, voteType, Upvote)),
     downvotes |-> Greatest0(s.downvotes + calculateDelta(s.vote, voteType, Downvote)),
     vote |-> IF VoteStatement(s.vote, voteType) = "delete" THEN NoneVote ELSE voteType]

\* the committed vote and counters of a key
Committed(r, u) ==
    [upvotes |-> reviews[r].upvotes,
     downvotes |-> reviews[r].downvotes,
     vote |-> getCurrentVoteValue(r, u)]

\* the last two committed requests addressed the same (review, user)
LastTwoSameKey ==
    /\ Len(lastTwo) = 2
    /\ lastTwo[1].reviewID = lastTwo[2].reviewID
    /\ lastTwo[1].userID = lastTwo[2].userID

\* C1: with requests run one at a time from an empty ledger, upvotes equals the
\* number of vote rows with vote_type = 1 and downvotes the number with -1
C1_CountersMatchRows ==
    Quiescent =>
        \A r \in Reviews : /\ reviews[r].upvotes = CountOf(r, Upvote)
                           /\ reviews[r].downvotes = CountOf(r, Downvote)

\* C2: toggle law: the same direction cast twice in a row from 'no vote row'
\* leaves no vote row and both counters at their value before the first cast
C2_ToggleLaw ==
    (/\ LastTwoSameKey
     /\ lastTwo[1].pre.vote = NoneVote
     /\ lastTwo[1].voteType \in {Upvote, Downvote}
     /\ lastTwo[2].voteType = lastTwo[1].voteType)
    => /\ RowsOf(lastTwo[1].reviewID, lastTwo[1].userID) = {}
       /\ reviews[lastTwo[1].reviewID].upvotes = lastTwo[1].pre.upvotes
       /\ reviews[lastTwo[1].reviewID].downvotes = lastTwo[1].pre.downvotes

C3_Flipped ==
    /\ LastTwoSameKey
    /\ lastTwo[1].pre.vote = NoneVote
    /\ lastTwo[1].voteType \in {Upvote, Downvote}
    /\ lastTwo[2].voteType = -lastTwo[1].voteType

\* C3: flip law: a cast of direction d followed by a cast of the opposite
\* direction, from 'no vote row', leaves exactly one row holding the opposite
\* direction, the counter of d at its value before the first cast and the
\* counter of the opposite direction one higher
C3_FlipLaw ==
    C3_Flipped =>
        LET r == lastTwo[1].reviewID
            u == lastTwo[1].userID
            d == lastTwo[1].voteType
            upBefore == lastTwo[1].pre.upvotes
            downBefore == lastTwo[1].pre.downvotes
        IN  /\ RowsOf(r, u) = {Row(r, u, -d)}
            /\ reviews[r].upvotes = (IF d = Upvote THEN upBefore ELSE upBefore + 1)
            /\ reviews[r].downvotes = (IF d = Downvote THEN downBefore ELSE downBefore + 1)

C3_Witness ==
    /\ C3_Flipped
    /\ Quiescent
    /\ getCurrentVoteValue(lastTwo[1].reviewID, lastTwo[1].userID) = -lastTwo[1].voteType

\* C4: two committed requests for the same (review, user) that started from the
\* same committed state leave the vote row and counters that running them one
\* after the other, in one of the two orders, leaves
C4_SerialOutcome ==
    (LastTwoSameKey /\ lastTwo[1].pre = lastTwo[2].pre) =>
        LET s == lastTwo[1].pre
            v1 == lastTwo[1].voteType
            v2 == lastTwo[2].voteType
        IN  Committed(lastTwo[1].reviewID, lastTwo[1].userID) \in
                {SerialEffect(SerialEffect(s, v1), v2),
                 SerialEffect(SerialEffect(s, v2), v1)}


\* a request the other open transactions keep from running its next statement
Waits(p) == InFlight(p) /\ ~ENABLED Step(p)

\* the step is the commit of p's transaction
Commits(p) == pc[p] = "Commit" /\ result'[p].status = "committed"

\* the step ends p's request with an error
Errors(p) == InFlight(p) /\ result'[p].status = "error"

C5_AtMostOneRow ==
    \A r \in Reviews, u \in Users :
        /\ Cardinality(RowsOf(r, u)) <= 1
        /\ Cardinality({p \in Procs : /\ voteWrite[p].op = "insert"
                                      /\ call[p].reviewID = r
                                      /\ call[p].userID = u}) <= 1

C5_FirstCastStep ==
    \A p \in Procs :
        LET r == call[p].reviewID
            u == call[p].userID
            v == call[p].voteType
        IN  /\ (Commits(p) /\ voteWrite[p].op = "insert") =>
                /\ RowsOf(r, u) = {}
                /\ review_votes' = review_votes \cup {Row(r, u, v)}
                /\ reviews'[r].upvotes =
                       reviews[r].upvotes + (IF v = Upvote THEN 1 ELSE 0)
                /\ reviews'[r].downvotes =
                       reviews[r].downvotes + (IF v = Downvote THEN 1 ELSE 0)
            /\ (Errors(p) /\ pc[p] # "getCurrentVote" /\ currentVote[p] = NoneVote) =>
                /\ review_votes' = review_votes
                /\ reviews' = reviews

\* C5: at most one vote row exists per (review, user) and at most one open
\* transaction holds an insert for it; a committed first cast adds the only row
\* of its key and exactly one to the counter of its direction, and a first cast
\* that ends in an error changes nothing
C5_OneVotePerPair == [](C5_AtMostOneRow) /\ [][C5_FirstCastStep]_vars

\* a request read 'no vote' and wants to insert, while the row of its key has
\* been committed by another request in the meantime
C5_Witness ==
    \E p \in Procs :
        /\ pc[p] = "updateVote"
        /\ VoteStatement(currentVote[p], call[p].voteType) = "insert"
        /\ RowsOf(call[p].reviewID, call[p].userID) # {}
        /\ reviews[call[p].reviewID].upvotes + reviews[call[p].reviewID].downvotes = 1

C6_Step ==
    /\ (review_votes' # review_votes \/ reviews' # reviews) =>
          \E p \in Procs :
              /\ Commits(p)
              /\ countWrite[p].set
              /\ review_votes' = ApplyVoteWrite(review_votes, call[p].reviewID,
                                                call[p].userID, voteWrite[p])
              /\ reviews' = ApplyCountWrite(reviews, call[p].reviewID, countWrite[p])
    /\ \A p \in Procs :
          Errors(p) => /\ review_votes' = review_votes
                       /\ reviews' = reviews
                       /\ voteWrite'[p] = NoWrite
                       /\ countWrite'[p] = NoCount

\* C6: a request that ends with an error leaves the committed vote rows and
\* counters untouched, and the committed tables change only when a transaction
\* commits, its vote-row write and its counter write together
C6_AllOrNothing == [][C6_Step]_vars

\* a request failed after it had written both the vote row and the counters
C6_Witness ==
    \E p \in Procs :
        /\ result[p].status = "error"
        /\ result[p].at = "Commit"
        /\ ~InFlight(p)

\* C7: upvotes and downvotes never go below zero, committed or not
C7_NonNegative ==
    /\ \A r \in Reviews : reviews[r].upvotes >= 0 /\ reviews[r].downvotes >= 0
    /\ \A p \in Procs : countWrite[p].upvotes >= 0 /\ countWrite[p].downvotes >= 0

\* the counter update of a request met a counter already at zero and a
\* negative delta
C7_Witness ==
    \E p \in Procs :
        /\ pc[p] = "Commit"
        /\ countWrite[p].set
        /\ \/ /\ reviews[call[p].reviewID].upvotes
                    + calculateDelta(currentVote[p], call[p].voteType, Upvote) < 0
              /\ countWrite[p].upvotes = 0
           \/ /\ reviews[call[p].reviewID].downvotes
                    + calculateDelta(currentVote[p], call[p].voteType, Downvote) < 0
              /\ countWrite[p].downvotes = 0

\* C8 as claimed: a request never waits while every other open request is by
\* another voter
C8_DifferentVotersNeverWait ==
    \A p \in Procs :
        (/\ InFlight(p)
         /\ \A q \in Procs \ {p} : InFlight(q) => call[q].userID # call[p].userID)
        => ~Waits(p)

\* C8 amended: a request never waits while every other open request is on
\* another review, and while every other open request is by another voter it
\* waits at no statement but the counter update
C8_WaitsOnlyAtCounters ==
    \A p \in Procs :
        /\ (/\ InFlight(p)
            /\ \A q \in Procs \ {p} : InFlight(q) => call[q].reviewID # call[p].reviewID)
           => ~Waits(p)
        /\ (/\ InFlight(p)
            /\ \A q \in Procs \ {p} : InFlight(q) => call[q].userID # call[p].userID)
           => (Waits(p) => pc[p] = "updateVoteCounts")

\* a request waits at its counter update for another voter's request on the
\* same review, while a request on another review would not
C8_Witness ==
    \E p \in Procs, q \in Procs :
        /\ p # q
        /\ Waits(p)
        /\ pc[p] = "updateVoteCounts"
        /\ InFlight(q)
        /\ call[q].reviewID = call[p].reviewID
        /\ call[q].userID # call[p].userID

C9_NoOpenTx ==
    \A p \in Procs : ~InFlight(p) => voteWrite[p] = NoWrite /\ countWrite[p] = NoCount

C9_NoDeadlock ==
    (\E p \in Procs : InFlight(p)) => (\E p \in Procs : ENABLED Step(p))

\* C9: every started request ends, committed or rolled back; a finished request
\* holds no write and no lock; some open request can always run
C9_AlwaysEnds ==
    /\ [](C9_NoOpenTx /\ C9_NoDeadlock)
    /\ \A p \in Procs :
          InFlight(p) ~> (~InFlight(p) /\ result[p].status \in {"committed", "error"})

\* a request was cancelled while it held its vote-row write and another
\* request is still open
C9_Witness ==
    \E p \in Procs, q \in Procs :
        /\ p # q
        /\ ~InFlight(p)
        /\ result[p].status = "error"
        /\ result[p].at \in {"updateVoteCounts", "Commit"}
        /\ InFlight(q)


\* ------------------------------------------------------------------------
\* Properties of the query builders
\* ------------------------------------------------------------------------
\* no constraint is set in the filter specification
Unconstrained(f) ==
    /\ f.Title = ""
    /\ f.GenreIDs = <<>>
    /\ f.MinYear = 0 /\ f.MaxYear = 0
    /\ f.MinRuntime = 0 /\ f.MaxRuntime = 0

HasWhere(query) == \E i \in 1..Len(query) : query[i] = Text("WHERE ")

\* C10: the query GetFiltered builds from a filter specification with no
\* constraint set contains no WHERE clause
C10_NoWhereWhenUnconstrained ==
    (built.from = "GetFiltered" /\ ~built.panicked /\ Unconstrained(built.filters))
        => ~HasWhere(built.query)

\* ------------------------------------------------------------------------
\* Properties of the catalogue requests
\* ------------------------------------------------------------------------
\* the elements of a sequence
Range(seq) == {seq[i] : i \in 1..Len(seq)}

\* the movies associated with every genre id of S
HavingAll(S) == {m \in movies : S \subseteq GenresOfMovie(m.id)}

\* GetFiltered answered the first page for a set of more than one genre id
C11_Asked ==
    /\ list.from = "GetFiltered"
    /\ list.err = "nil"
    /\ list.filters.Page = 1
    /\ Len(list.filters.GenreIDs) > 1
    /\ Cardinality(Range(list.filters.GenreIDs)) = Len(list.filters.GenreIDs)

\* C11: for a set S of more than one genre id, the rows the genre fragment
\* admits are the movies associated with every id of S: every returned movie
\* is one of them and the total counted over the admitted rows is their number
C11_GenreContainment ==
    C11_Asked =>
        /\ \A i \in 1..Len(list.ids) :
              list.ids[i] \in {m.id : m \in HavingAll(Range(list.filters.GenreIDs))}
        /\ list.total_records = Cardinality(HavingAll(Range(list.filters.GenreIDs)))

\* a movie with every id of S was returned while another movie, associated with
\* only some of them, was left out
C11_Witness ==
    /\ C11_Asked
    /\ list.ids # <<>>
    /\ \E m \in movies :
          /\ GenresOfMovie(m.id) \cap Range(list.filters.GenreIDs) # {}
          /\ ~(Range(list.filters.GenreIDs) \subseteq GenresOfMovie(m.id))

\* the movie is associated with a genre of that name
HasGenreNamed(movieID, name) ==
    \E g \in genres : g.name = name /\ g.id \in GenresOfMovie(movieID)

\* C12: every movie listMoviesHandler returns for a non-empty genres parameter
\* is associated with every genre the parameter names
C12_EveryRequestedGenre ==
    (/\ list.from = "listMoviesHandler"
     /\ list.status = "ok"
     /\ list.genreNames # <<>>)
    => \A i \in 1..Len(list.ids) :
          \A name \in Range(list.genreNames) : HasGenreNamed(list.ids[i], name)

\* the pages fetched so far, one after the other
RECURSIVE Flatten(_)
Flatten(seqs) == IF seqs = <<>> THEN <<>> ELSE Head(seqs) \o Flatten(Tail(seqs))

\* the ids of the rows the filters of the request under way match
MatchingIDs ==
    LET q == GetFilteredQuery(list.filters.GenreIDs, list.filters)
    IN  {m.id : m \in Matching(q.query, q.args)}

\* C13: the pages 1, 2, ... fetched with the same filters from the same rows
\* share no row, and once a page comes back empty they list every matching row
C13_PagesPartition ==
    pages # <<>> =>
        /\ \A i, j \in 1..Len(Flatten(pages)) :
              i # j => Flatten(pages)[i] # Flatten(pages)[j]
        /\ Range(Flatten(pages)) \subseteq MatchingIDs
        /\ pages[Len(pages)] = <<>> => Range(Flatten(pages)) = MatchingIDs

\* three pages of one row were fetched, sorted on a column in which two of the
\* fetched rows hold the same value, and the page after them came back empty
C13_Witness ==
    /\ Len(pages) = 4
    /\ pages[4] = <<>>
    /\ list.filters.PageSize = 1
    /\ list.filters.Sort \in {<<"-", "year">>, <<"runtime">>, <<"title">>}
    /\ Cardinality(MatchingIDs) = 3

\* the database raised no error and the page asked for lies beyond the last
\* matching row (no row matches, or the page is past the last one)
C14_NoRowOnPage ==
    /\ list.from \in {"GetFiltered", "listMoviesHandler"}
    /\ list.queries # <<>>
    /\ list.raised = "nil"
    /\ Cardinality(MatchingIDs) <= offset(list.filters)

\* C14: when the query returns no row, GetFiltered returns no movie, a total of
\* 0 and no error, and calculateMetadata(0, page, page_size) is the all-zero
\* Metadata whatever the page and the page size
C14_ZeroRows ==
    /\ C14_NoRowOnPage =>
          /\ list.err = "nil"
          /\ list.ids = <<>>
          /\ list.total_records = 0
          /\ list.status = "ok" => list.metadata = Metadata(0, 0, 0, 0, 0)
    /\ \A pg \in ListPages \cup CallPages, ps \in ListPageSizes \cup CallPageSizes :
          calculateMetadata(0, pg, ps) = Metadata(0, 0, 0, 0, 0)

\* the second page was asked for while every matching row is on the first
C14_Witness ==
    /\ C14_NoRowOnPage
    /\ list.filters.Page = 2
    /\ MatchingIDs # {}
    /\ list.ids = <<>>

\* the filters of the request break a rule of ValidateMovieFilters
C15_Invalid ==
    \/ list.filters.Page < 1 \/ list.filters.Page > 10000000
    \/ list.filters.PageSize < 1 \/ list.filters.PageSize > 100
    \/ ~Contains(list.filters.SortSafelist, list.filters.Sort)
    \/ (list.filters.MinYear # 0 /\ list.filters.MinYear < 1888)
    \/ (list.filters.MaxYear # 0 /\ list.filters.MaxYear > NowYear + 10)
    \/ (list.filters.MinYear # 0 /\ list.filters.MaxYear # 0
          /\ list.filters.MinYear > list.filters.MaxYear)

\* C15: when the filters of GET /v1/movies fail validation, the handler answers
\* with the validation errors keyed by field and no model method has queried
\* the database
C15_NoQueryWhenInvalid ==
    (list.from = "listMoviesHandler" /\ C15_Invalid) =>
        /\ list.status = "failedValidation"
        /\ list.queries = <<>>
        /\ list.ids = <<>>
        /\ list.errors # {}
        /\ list.errors \subseteq {"page", "page_size", "sort", "min_year", "max_year"}
        /\ ~Contains(list.filters.SortSafelist, list.filters.Sort) => "sort" \in list.errors
        /\ list.filters.Page < 1 => "page" \in list.errors

\* a request with a sort key outside the safelist was refused while the
\* catalogue holds movies
C15_Witness ==
    /\ list.from = "listMoviesHandler"
    /\ list.status = "failedValidation"
    /\ list.filters.Sort = <<"bogus">>
    /\ list.errors = {"sort"}
    /\ movies # {}

\* the three conditions on page, page_size and sort
C16_WithinLimits ==
    /\ 1 <= list.filters.Page /\ list.filters.Page <= 10000000
    /\ 1 <= list.filters.PageSize /\ list.filters.PageSize <= 100
    /\ \E i \in 1..Len(list.filters.SortSafelist) :
          list.filters.SortSafelist[i] = list.filters.Sort

\* C16: ValidatePageFilters (and data.ValidateFilters) records no error
\* exactly when 1 <= page <= 10,000,000, 1 <= page_size <= 100 and sort is a
\* member of the safelist
C16_ValidIffWithinLimits ==
    list.from \in {"ValidatePageFilters", "ValidateFilters"} =>
        /\ (list.errors = {}) <=> C16_WithinLimits
        /\ ("page" \in list.errors) <=>
              ~(1 <= list.filters.Page /\ list.filters.Page <= 10000000)
        /\ ("page_size" \in list.errors) <=>
              ~(1 <= list.filters.PageSize /\ list.filters.PageSize <= 100)

\* the largest admitted page and page_size passed with a descending sort key
C16_Witness ==
    /\ list.from = "ValidatePageFilters"
    /\ list.filters.Page = 10000000
    /\ list.filters.PageSize = 100
    /\ list.filters.Sort = <<"-", "year">>
    /\ list.errors = {}

\* C17: an error raised while the filtered movie query is executed or read
\* (query failure, row scan failure, row iteration error) is the error
\* GetFiltered returns, with no results and a total of 0
C17_ErrorReturnedUnchanged ==
    (list.from \in {"GetFiltered", "listMoviesHandler"}
        /\ list.raised \in {"query", "scan", "rows"}) =>
        /\ list.err = list.raised
        /\ list.ids = <<>>
        /\ list.total_records = 0

\* the committed row of the movie id (NoMovie when there is none)
StoredMovie(tbl, id) ==
    IF \E r \in tbl : r.id = id THEN CHOOSE r \in tbl : r.id = id ELSE NoMovie

\* the two requests carried the same version of the same movie to Update
SameVersion(p, q) ==
    /\ p # q
    /\ upd[p].movie.id # 0
    /\ upd[p].movie.id = upd[q].movie.id
    /\ upd[p].supplied = upd[q].supplied

\* of two requests that carried the same version, never both succeed, and when
\* both have ended without being aborted one succeeded and the other got
\* ErrEditConflict
C18_ExactlyOne ==
    \A p, q \in Procs :
        (SameVersion(p, q) /\ upd[p].phase = "done" /\ upd[q].phase = "done") =>
            /\ ~(upd[p].err = "nil" /\ upd[q].err = "nil")
            /\ (upd[p].err # "aborted" /\ upd[q].err # "aborted") =>
                  {upd[p].err, upd[q].err} = {"nil", "ErrEditConflict"}

\* a stored movie changes only by the commit of an Update whose supplied
\* version is the stored one, and its version grows by exactly 1; a request
\* that ends with ErrEditConflict leaves the table as it was
C18_VersionStep ==
    /\ \A id \in UpdateIDs :
          (StoredMovie(movies, id) # NoMovie
              /\ StoredMovie(movies', id) # StoredMovie(movies, id)) =>
              \E p \in Procs :
                  /\ upd[p].phase = "updated" /\ upd'[p].phase = "done"
                  /\ upd'[p].err = "nil"
                  /\ upd[p].movie.id = id
                  /\ upd[p].supplied = StoredMovie(movies, id).version
                  /\ StoredMovie(movies', id).version =
                        StoredMovie(movies, id).version + 1
    /\ \A p \in Procs :
          (upd'[p].err = "ErrEditConflict" /\ upd[p].err # "ErrEditConflict") =>
              /\ movies' = movies
              /\ StoredMovie(movies, upd[p].movie.id).version # upd[p].supplied

\* C18: MovieModel.Update changes a movie only when the stored version equals
\* the supplied one and then increases the version by exactly 1; of two
\* concurrent updates carrying the same version one succeeds and the other
\* returns ErrEditConflict and leaves the record unchanged
C18_OptimisticLock == []C18_ExactlyOne /\ [][C18_VersionStep]_vars

\* two requests read version 1 of movie 1; one committed version 2 and the
\* other was answered with ErrEditConflict
C18_Witness ==
    /\ SameVersion(1, 2)
    /\ upd[1].phase = "done" /\ upd[2].phase = "done"
    /\ upd[1].err = "nil" /\ upd[2].err = "ErrEditConflict"
    /\ upd[1].supplied = 1
    /\ StoredMovie(movies, 1).version = 2

\* the placeholder numbers that occur in a piece of query text
PlaceholdersIn(tokens) ==
    {tokens[i].n : i \in {j \in 1..Len(tokens) : tokens[j].s = "$"}}

\* the placeholder numbers of the fragments lo..hi of a builder
PlaceholdersOf(b, lo, hi) ==
    UNION {PlaceholdersIn(b.conditions[k]) : k \in lo..hi}

\* argCount is the number of arguments, and the fragments number their
\* placeholders one after the other: the k-th takes the numbers that follow
\* those of the fragments before it, up to the number of arguments
C19_Builder ==
    /\ qb.argCount = Len(qb.args)
    /\ PlaceholdersOf(qb, 1, Len(qb.conditions)) = 1..Len(qb.args)
    /\ \A k \in 1..Len(qb.conditions) :
          LET before == Cardinality(PlaceholdersOf(qb, 1, k - 1))
              mine == PlaceholdersIn(qb.conditions[k])
          IN  /\ mine # {}
              /\ mine = (before + 1)..(before + Cardinality(mine))

\* a call that changes the builder keeps the fragments and arguments it found,
\* and the placeholders of the fragments it appends are the positions of the
\* arguments it appends
C19_Call ==
    (qb.kind # "none" /\ qb'.kind = qb.kind /\ qb' # qb /\ qb'.conditions # <<>>) =>
        /\ Len(qb'.conditions) > Len(qb.conditions)
        /\ SubSeq(qb'.conditions, 1, Len(qb.conditions)) = qb.conditions
        /\ SubSeq(qb'.args, 1, Len(qb.args)) = qb.args
        /\ PlaceholdersOf(qb', Len(qb.conditions) + 1, Len(qb'.conditions)) =
              (Len(qb.args) + 1)..Len(qb'.args)
        /\ qb'.argCount = Len(qb'.args)

\* Build appends page_size and offset to the builder's arguments
C19_BuildCall ==
    (qb.kind # "none" /\ qb'.kind = "none" /\ ~built'.panicked) =>
        /\ Len(built'.args) = qb.argCount + 2
        /\ SubSeq(built'.args, 1, Len(qb.args)) = qb.args

\* in a built query LIMIT and OFFSET use the placeholders n+1 and n+2 after
\* the n arguments of the fragments, and their arguments are the last two:
\* page_size, then offset
C19_Built ==
    (built.from # "none" /\ ~built.panicked) =>
        LET n == Len(built.args) - 2
            atLimit == IndexOf(built.query, Text("LIMIT "))
            atOffset == IndexOf(built.query, Text("OFFSET "))
        IN  /\ n >= 0
            /\ atLimit > 0 /\ atOffset = atLimit + 2
            /\ atOffset + 1 = Len(built.query)
            /\ built.query[atLimit + 1] = Placeholder(n + 1)
            /\ built.query[atOffset + 1] = Placeholder(n + 2)
            /\ built.args[n + 1] = IntArg(limit(built.filters))
            /\ built.args[n + 2] = IntArg(offset(built.filters))
            /\ PlaceholdersIn(SubSeq(built.query, 1, atLimit)) = 1..n

\* C19: after any sequence of Add*/With* calls on a fresh builder followed by
\* Build, argCount equals the number of arguments, the placeholders of every
\* fragment refer to the arguments appended by the same call, and LIMIT and
\* OFFSET use n+1 and n+2 bound to the last two arguments, page_size and offset
C19_PlaceholdersMatchArgs ==
    /\ []C19_Builder
    /\ []C19_Built
    /\ [][C19_Call /\ C19_BuildCall]_vars

\* a review query was built from a builder holding a genre fragment (two
\* arguments) and a rating fragment
C19_Witness ==
    /\ built.from = "BuildReviewQuery"
    /\ ~built.panicked
    /\ Len(built.args) = 5
    /\ built.args[1].kind = "array"
    /\ built.args[3] = IntArg(5)

\* the zero values of the argument types: "", 0, an empty id list, the zero time
ZeroArgs == {StrArg(""), IntArg(0), ArrayArg(<<>>), TimeArg(0)}

\* a call on a filters.QueryBuilder appended a fragment
C20_Appended ==
    /\ qb.kind = "filters" /\ qb'.kind = "filters"
    /\ Len(qb'.conditions) > Len(qb.conditions)

\* C20: an Add* method called with an absent or zero value is a no-op: no
\* call appends a fragment bound to a zero value
C20_ZeroValueNoOp ==
    [][C20_Appended =>
          \A i \in (Len(qb.args) + 1)..Len(qb'.args) : qb'.args[i] \notin ZeroArgs]_vars

\* the values of the columnMap of BuildMovieQuery and of BuildReviewQuery
MovieColumns == {"m.id", "m.title", "m.year", "m.runtime"}
ReviewColumns == {"r.id", "r.rating", "r.upvotes", "r.downvotes", "r.created_at"}

\* C21: for every sort key, BuildMovieQuery and BuildReviewQuery either panic
\* (key outside the safelist) or emit an ORDER BY whose column is an entry of
\* the collection's column map and whose direction is ASC or DESC; no symbol
\* of the sort key appears in the query text
C21_SortResolved ==
    (built.from # "none" /\ built.pkg = "filters") =>
        IF ~Contains(built.filters.SortSafelist, built.filters.Sort)
        THEN built.panicked /\ built.query = <<>>
        ELSE LET at == IndexOf(built.query, Text("ORDER BY "))
                 columns == IF built.from = "BuildReviewQuery"
                            THEN ReviewColumns ELSE MovieColumns
             IN  /\ ~built.panicked
                 /\ at > 0
                 /\ built.query[at + 1] \in {Text(c) : c \in columns}
                 /\ built.query[at + 2] \in {Text("ASC"), Text("DESC")}
                 /\ \A i \in 1..Len(built.query) :
                       built.query[i].s \notin Range(built.filters.Sort)

\* a review query sorted by -created_at was built with ORDER BY r.created_at DESC
C21_Witness ==
    /\ built.from = "BuildReviewQuery"
    /\ built.filters.Sort = <<"-", "created_at">>
    /\ ~built.panicked
    /\ \E i \in 1..(Len(built.query) - 2) :
          /\ built.query[i] = Text("ORDER BY ")
          /\ built.query[i + 1] = Text("r.created_at")
          /\ built.query[i + 2] = Text("DESC")

\* the filters of the built query with another key of their safelist
WithSort(key) == [built.filters EXCEPT !.Sort = key]

\* C22: for every safelisted sort key the resolved direction is DESC exactly
\* when the key starts with the descending marker "-", otherwise ASC, and the
\* resolved column is the key with that marker removed
C22_DirectionAndColumn ==
    built.from # "none" =>
        /\ \A key \in Range(built.filters.SortSafelist) :
              /\ sortDirection(WithSort(key)) = "DESC" <=> key[1] = "-"
              /\ sortDirection(WithSort(key)) = "ASC" <=> key[1] # "-"
              /\ key[1] = "-" => <<"-">> \o sortColumn(WithSort(key)) = key
              /\ key[1] # "-" => sortColumn(WithSort(key)) = key
        /\ ~built.panicked =>
              LET at == IndexOf(built.query, Text("ORDER BY "))
              IN  built.query[at + Len(sortColumn(built.filters)) + 1] =
                      Text(IF built.filters.Sort[1] = "-" THEN "DESC" ELSE "ASC")

\* a movie query was built for the key -title: column title, direction DESC
C22_Witness ==
    /\ built.from = "Build"
    /\ built.pkg = "filters"
    /\ ~built.panicked
    /\ built.filters.Sort = <<"-", "title">>
    /\ sortColumn(built.filters) = <<"title">>
    /\ sortDirection(built.filters) = "DESC"

\* values compared with the ones a request carried: negative, zero, two
\* positive ones, and one above the largest rating
ComparedValues == {-5, 0, 3, 8, 11}
ComparedTitles == {"", "alien", "dune"}
ComparedGenreIDs == {<<>>, <<1>>, <<2, 3>>}

\* the filter specifications compared with the one of the built query: other
\* title, genre ids, years, page and page_size, the same runtimes and sort key
ComparedSpecs ==
    {[built.filters EXCEPT !.Title = t, !.GenreIDs = g, !.MinYear = y1, !.MaxYear = y2,
                           !.Page = pg, !.PageSize = ps] :
        t \in ComparedTitles, g \in ComparedGenreIDs,
        y1 \in ComparedValues, y2 \in ComparedValues,
        pg \in {1, 7}, ps \in {1, 50}}

\* which filters of a movie specification the builder admits
Admitted(mf) ==
    <<mf.Title # "", Len(mf.GenreIDs) > 0, mf.MinYear > 0, mf.MaxYear > 0,
      mf.MinRuntime > 0, mf.MaxRuntime > 0>>

\* which filters of a movie specification are non-zero
NonZero(mf) ==
    <<mf.Title # "", mf.GenreIDs # <<>>, mf.MinYear # 0, mf.MaxYear # 0,
      mf.MinRuntime # 0, mf.MaxRuntime # 0>>

\* the values of a uint8 rating among the compared ones
ComparedRatings == {v \in ComparedValues : v >= 0 /\ v <= 255}

\* the calls of the review builder on the builder as it stands give the same
\* fragments for any two values that agree under the presence test present(_)
ReviewTextByPresence(present(_), presentMax(_)) ==
    /\ \A lo1, lo2, hi1, hi2 \in ComparedRatings :
          (present(lo1) = present(lo2) /\ presentMax(hi1) = presentMax(hi2)) =>
              AddRatingFilter(qb, lo1, hi1).conditions =
                  AddRatingFilter(qb, lo2, hi2).conditions
    /\ \A v1, v2 \in ComparedValues :
          present(v1) = present(v2) =>
              /\ AddUpvotesFilter(qb, v1).conditions = AddUpvotesFilter(qb, v2).conditions
              /\ AddUserFilter(qb, v1).conditions = AddUserFilter(qb, v2).conditions
              /\ AddMovieFilter(qb, v1).conditions = AddMovieFilter(qb, v2).conditions
    /\ \A d1, d2, e1, e2 \in ComparedRatings :
          ((d1 # 0) = (d2 # 0) /\ (e1 # 0) = (e2 # 0)) =>
              AddDateRangeFilter(qb, d1, e1).conditions =
                  AddDateRangeFilter(qb, d2, e2).conditions
    /\ \A pg \in {1, 7}, ps \in {1, 50}, k \in Range(ReviewSortSafelist) :
          BuildReviewQuery(qb, ReviewFilterSpec(pg, ps, k)).query =
              BuildReviewQuery(qb, ReviewFilterSpec(1, 20, k)).query

\* the query MovieModel.GetFiltered built is the one it builds for every
\* compared specification that agrees with the request under presence(_)
MovieTextByPresence(presence(_)) ==
    (built.from = "GetFiltered" /\ built.pkg = "filters" /\ ~built.panicked) =>
        \A mf \in ComparedSpecs :
            presence(mf) = presence(built.filters) =>
                GetFilteredQuery(mf.GenreIDs, mf).query = built.query

\* C23 as amended: the query text depends only on which filters the builder
\* admits (title not empty, genre list not empty, bounds above zero, maximum
\* rating in 1..10, dates not zero) and on the sort key; filter values, page
\* and page_size only reach the argument list
C23_TextByAdmitted ==
    /\ MovieTextByPresence(Admitted)
    /\ qb.kind = "filters" =>
          ReviewTextByPresence(LAMBDA v : v > 0, LAMBDA v : v > 0 /\ v <= 10)

\* C23 as stated: the query text depends only on which filters are non-zero
\* and on the sort key
C23_TextByNonZero ==
    /\ MovieTextByPresence(NonZero)
    /\ qb.kind = "filters" =>
          ReviewTextByPresence(LAMBDA v : v # 0, LAMBDA v : v # 0)

\* GetFiltered built a query with a title, a genre and a year fragment
C23_Witness ==
    /\ built.from = "GetFiltered"
    /\ built.pkg = "filters"
    /\ ~built.panicked
    /\ built.filters.Title = "dune"
    /\ built.filters.GenreIDs = <<1, 2>>
    /\ built.filters.MaxYear = 1990
    /\ Len(built.args) = 6

\* the largest value of a Go int of the narrowest width (32 bits)
MaxInt32 == 2147483647

\* C24: for every validated filter (1 <= page <= 10,000,000 and
\* 1 <= page_size <= 100) limit() is page_size and offset() is
\* (page - 1) * page_size, which is not negative and fits an int; a page
\* never holds more than page_size rows
C24_LimitAndOffset ==
    /\ (list.from \in {"ValidatePageFilters", "ValidateFilters"}
          /\ list.errors \cap {"page", "page_size"} = {}) =>
            /\ limit(list.filters) = list.filters.PageSize
            /\ offset(list.filters) = (list.filters.Page - 1) * list.filters.PageSize
            /\ offset(list.filters) >= 0
            /\ offset(list.filters) <= MaxInt32
            /\ limit(list.filters) >= 1 /\ limit(list.filters) <= 100
    /\ list.from \in {"GetFiltered", "listMoviesHandler"} =>
            Len(list.ids) <= list.filters.PageSize
    /\ \A i \in 1..Len(pages) :
            /\ Len(pages[i]) <= list.filters.PageSize
            /\ offset([list.filters EXCEPT !.Page = i]) = (i - 1) * list.filters.PageSize

\* the largest validated page and page_size give the offset 999,999,900
C24_Witness ==
    /\ list.from = "ValidatePageFilters"
    /\ list.errors = {}
    /\ list.filters.Page = 10000000
    /\ list.filters.PageSize = 100
    /\ offset(list.filters) = 999999900

\* C25: for every total_records > 0 and page_size >= 1, calculateMetadata
\* returns current_page = page, page_size = page_size, first_page = 1,
\* last_page = ceil(total_records / page_size) and total_records unchanged
\* (5 rows, page 1, page_size 20 give {1, 20, 1, 1, 5})
C25_Metadata ==
    /\ (list.from = "calculateMetadata" /\ list.total_records > 0
          /\ list.filters.PageSize >= 1) =>
            /\ list.metadata.CurrentPage = list.filters.Page
            /\ list.metadata.PageSize = list.filters.PageSize
            /\ list.metadata.FirstPage = 1
            /\ list.metadata.LastPage * list.filters.PageSize >= list.total_records
            /\ (list.metadata.LastPage - 1) * list.filters.PageSize < list.total_records
            /\ list.metadata.TotalRecords = list.total_records
    /\ (list.from = "calculateMetadata" /\ list.total_records = 5
          /\ list.filters.Page = 1 /\ list.filters.PageSize = 20) =>
            list.metadata = Metadata(1, 20, 1, 1, 5)
    /\ (list.from = "listMoviesHandler" /\ list.status = "ok"
          /\ list.total_records > 0) =>
            /\ list.metadata.CurrentPage = list.filters.Page
            /\ list.metadata.PageSize = list.filters.PageSize
            /\ list.metadata.FirstPage = 1
            /\ list.metadata.LastPage * list.filters.PageSize >= list.total_records
            /\ (list.metadata.LastPage - 1) * list.filters.PageSize < list.total_records
            /\ list.metadata.TotalRecords = list.total_records

\* 21 records in pages of 20 give a last page of 2
C25_Witness ==
    /\ list.from = "calculateMetadata"
    /\ list.total_records = 21
    /\ list.filters.Page = 1
    /\ list.filters.PageSize = 20
    /\ list.metadata = Metadata(1, 20, 1, 2, 21)

\* the delta rule: (1 if new = target else 0) - (1 if old = target else 0)
DeltaRule(old, new, target) ==
    (IF new = target THEN 1 ELSE 0) - (IF old = target THEN 1 ELSE 0)

\* C26: for all old, new and target vote values in {-1, 0, 1},
\* calculateDelta(old, new, target) is (1 if new = target else 0) -
\* (1 if old = target else 0), a value in {-1, 0, 1}; the counters a request
\* is about to commit are the stored ones moved by these deltas
C26_DeltaRule ==
    /\ \A old, new, target \in {Downvote, NoneVote, Upvote} :
          /\ calculateDelta(old, new, target) = DeltaRule(old, new, target)
          /\ calculateDelta(old, new, target) \in {-1, 0, 1}
    /\ \A p \in Procs :
          pc[p] = "Commit" =>
              /\ countWrite[p].upvotes =
                    Greatest0(reviews[call[p].reviewID].upvotes
                              + DeltaRule(currentVote[p], call[p].voteType, Upvote))
              /\ countWrite[p].downvotes =
                    Greatest0(reviews[call[p].reviewID].downvotes
                              + DeltaRule(currentVote[p], call[p].voteType, Downvote))

\* a request that turns an upvote into a downvote is about to commit the
\* deltas -1 and +1
C26_Witness ==
    \E p \in Procs :
        /\ pc[p] = "Commit"
        /\ currentVote[p] = Upvote
        /\ call[p].voteType = Downvote
        /\ reviews[call[p].reviewID].upvotes = 1
        /\ countWrite[p].upvotes = 0
        /\ countWrite[p].downvotes = 1

\* C27: review filter validation rejects every request whose min_rating or
\* max_rating query parameter is an integer greater than 10, including values
\* of 256 and above
C27_RatingsAbove10Rejected ==
    (rv.from = "ValidateReviewFilters"
        /\ (rv.query.min_rating > 10 \/ rv.query.max_rating > 10)) =>
        rv.errors \cap {"min_rating", "max_rating"} # {}

\* C28: in requests executed one at a time, a committed cast of 0 (NoneVote)
\* on a (review, user) with a recorded vote deletes that vote row, takes
\* exactly 1 off the counter of the recorded direction and leaves the other
\* counter alone; a committed cast of 0 with no recorded vote changes neither
\* review_votes nor reviews
C28_CastOfNone ==
    \A p \in Procs :
        (pc[p] = "Commit" /\ pc'[p] = "idle" /\ result'[p].status = "committed"
            /\ call[p].voteType = NoneVote) =>
            LET r == call[p].reviewID
                u == call[p].userID
            IN  IF pre[p].vote = NoneVote
                THEN /\ RowsOf(r, u) = {}
                     /\ review_votes' = review_votes
                     /\ reviews' = reviews
                ELSE /\ RowsOf(r, u) = {Row(r, u, pre[p].vote)}
                     /\ review_votes' = review_votes \ {Row(r, u, pre[p].vote)}
                     /\ reviews[r] = [upvotes |-> pre[p].upvotes,
                                      downvotes |-> pre[p].downvotes]
                     /\ reviews'[r].upvotes = pre[p].upvotes
                            - (IF pre[p].vote = Upvote THEN 1 ELSE 0)
                     /\ reviews'[r].downvotes = pre[p].downvotes
                            - (IF pre[p].vote = Downvote THEN 1 ELSE 0)
                     /\ \A o \in Reviews \ {r} : reviews'[o] = reviews[o]

C28_NoneVoteRetracts == [][C28_CastOfNone]_vars

\* the last two committed requests are casts of 0: the first on a recorded
\* vote, the second on the same key once the row is gone
C28_Witness ==
    /\ Len(lastTwo) = 2
    /\ lastTwo[1].voteType = NoneVote
    /\ lastTwo[1].pre.vote # NoneVote
    /\ lastTwo[2].voteType = NoneVote
    /\ lastTwo[2].pre.vote = NoneVote
    /\ lastTwo[2].reviewID = lastTwo[1].reviewID
    /\ lastTwo[2].userID = lastTwo[1].userID
    /\ Quiescent

\* C29: when calls by different voters run concurrently, the counters of a
\* review change only when a call commits, and each commit adds exactly that
\* call's two deltas to the counters committed just before it; so the final
\* counters are the initial ones plus the sum of the deltas of every
\* committed call, none lost or overwritten
C29_CommitAddsDeltas ==
    /\ reviews' # reviews => \E p \in Procs : Commits(p)
    /\ \A p \in Procs :
          Commits(p) =>
              LET r == call[p].reviewID
              IN  /\ reviews'[r].upvotes = reviews[r].upvotes
                        + calculateDelta(currentVote[p], call[p].voteType, Upvote)
                  /\ reviews'[r].downvotes = reviews[r].downvotes
                        + calculateDelta(currentVote[p], call[p].voteType, Downvote)
                  /\ \A o \in Reviews \ {r} : reviews'[o] = reviews[o]

C29_NoLostDelta == [][C29_CommitAddsDeltas]_vars

\* two voters upvoted the same review in overlapping calls (both began at the
\* same counters), both committed and the counter is two higher
C29_Witness ==
    /\ Len(lastTwo) = 2
    /\ lastTwo[1].reviewID = lastTwo[2].reviewID
    /\ lastTwo[1].userID # lastTwo[2].userID
    /\ lastTwo[1].voteType = Upvote /\ lastTwo[1].pre.vote = NoneVote
    /\ lastTwo[2].voteType = Upvote /\ lastTwo[2].pre.vote = NoneVote
    /\ lastTwo[2].pre.upvotes = lastTwo[1].pre.upvotes
    /\ reviews[lastTwo[1].reviewID].upvotes = lastTwo[1].pre.upvotes + 2
    /\ Quiescent

\* the number of the last page that holds a matching row (0 when none matches)
PagesNeeded ==
    (Cardinality(MatchingIDs) + list.filters.PageSize - 1) \div list.filters.PageSize

\* C30: a list request answered over unchanged rows either carries the
\* all-zero metadata or metadata with first_page <= current_page <= last_page;
\* a requested page beyond the last page that holds a row yields no row and
\* the all-zero metadata
C30_PageWithinRange ==
    (list.from = "listMoviesHandler" /\ list.status = "ok") =>
        /\ list.metadata # Metadata(0, 0, 0, 0, 0) =>
              /\ list.metadata.FirstPage <= list.metadata.CurrentPage
              /\ list.metadata.CurrentPage <= list.metadata.LastPage
              /\ list.metadata.CurrentPage = list.filters.Page
              /\ list.metadata.LastPage = PagesNeeded
              /\ list.ids # <<>>
        /\ list.filters.Page > PagesNeeded =>
              /\ list.ids = <<>>
              /\ list.metadata = Metadata(0, 0, 0, 0, 0)

\* the second and last of two pages was listed and carries a row
C30_Witness ==
    /\ list.from = "listMoviesHandler"
    /\ list.status = "ok"
    /\ list.filters.Page = 2
    /\ PagesNeeded = 2
    /\ list.ids # <<>>
    /\ list.metadata.CurrentPage = 2
    /\ list.metadata.LastPage = 2

====
